---------------------------- MODULE Spec2Model ----------------------------
(***************************************************************************)
(* A model of the simulation core of game.js: the Snake/Bot agents, the    *)
(* SpatialHash, the per-frame pipeline (gameLoop / update /                *)
(* checkCollisions) and the start/restart handlers.                        *)
(*                                                                         *)
(* JavaScript Numbers are modelled in fixed point:                         *)
(*   lengths, positions, widths   milli-pixels   (Px  = 1000 per pixel)    *)
(*   score, food value            milli-points   (Pt  = 1000 per point)    *)
(*   time (dt, timers)            milliseconds   (Sec = 1000 per second)   *)
(*   angles                       milli-radians  (PI  = 3142)              *)
(*   sin / cos                    thousandths                              *)
(* Products are rounded toward zero.  TLC's integers are 32 bit, so the    *)
(* squared distances of the code are compared limb-wise (SqCmp).           *)
(***************************************************************************)
EXTENDS Integers, Sequences, FiniteSets, TLC

\* ------------------------------------------------------------------------
\* Fixed-point scales
\* ------------------------------------------------------------------------
Px == 1000
Pt == 1000
Sec == 1000
PI == 3142
TwoPI == 2 * PI
HalfPI == PI \div 2

\* ------------------------------------------------------------------------
\* CONFIG (game.js 5-16)
\* ------------------------------------------------------------------------
mapSize == 100000 * Px
baseSpeed == 450
boostSpeed == 900
turnSpeed == 8
maxPathPoints == 400

\* ------------------------------------------------------------------------
\* Arithmetic helpers
\* ------------------------------------------------------------------------
Abs(a) == IF a < 0 THEN -a ELSE a
Min(a, b) == IF a < b THEN a ELSE b
Max(a, b) == IF a > b THEN a ELSE b
Sign(a) == IF a > 0 THEN 1 ELSE IF a < 0 THEN -1 ELSE 0

\* a / b rounded toward zero (b > 0)
Quot(a, b) == IF a >= 0 THEN a \div b ELSE -((-a) \div b)

\* c * v / 1000 rounded toward zero, for |c| <= 1000 and v >= 0, without
\* forming the product c * v
MulK(c, v) == c * (v \div 1000) + Quot(c * (v % 1000), 1000)

\* Sign of dx^2 + dy^2 - r^2 (r >= 0), computed on base-10^4 limbs.
Limb == 10000
SqCmp(dx, dy, r) ==
    LET ax == Abs(dx)
        ay == Abs(dy)
        H == (ax \div Limb) * (ax \div Limb) + (ay \div Limb) * (ay \div Limb)
               - (r \div Limb) * (r \div Limb)
        M == 2 * (ax \div Limb) * (ax % Limb) + 2 * (ay \div Limb) * (ay % Limb)
               - 2 * (r \div Limb) * (r % Limb)
        L == (ax % Limb) * (ax % Limb) + (ay % Limb) * (ay % Limb)
               - (r % Limb) * (r % Limb)
        rest == (M % Limb) * Limb + L
        top == H + (M \div Limb) + (rest \div (Limb * Limb))
    IN  IF top > 0 THEN 1
        ELSE IF top < 0 THEN -1
        ELSE IF rest % (Limb * Limb) > 0 THEN 1 ELSE 0

\* Vector.dist(v) > r  and  Vector.dist(v) < r   (game.js 89)
DistGT(dx, dy, r) == r < 0 \/ SqCmp(dx, dy, r) > 0
DistLT(dx, dy, r) == r > 0 /\ SqCmp(dx, dy, r) < 0

\* Math.sin on [0, PI]: Bhaskara's rational approximation
\* 16 x (PI - x) / (5 PI^2 - 4 x (PI - x)), in thousandths, by long division.
SinHalf(x) ==
    LET p == x * (PI - x)
        num == 16 * p
        den == 5 * PI * PI - 4 * p
        r0 == num % den
        d1 == (r0 * 10) \div den
        r1 == (r0 * 10) % den
        d2 == (r1 * 10) \div den
        r2 == (r1 * 10) % den
        d3 == (r2 * 10) \div den
    IN  (num \div den) * 1000 + d1 * 100 + d2 * 10 + d3

\* Math.sin / Math.cos of an angle in milli-radians, in thousandths
Sin(a) ==
    LET x == a % TwoPI
    IN  IF x <= PI THEN SinHalf(x) ELSE -SinHalf(x - PI)
Cos(a) == Sin(a + HalfPI)

\* Math.atan2(y, x) in milli-radians: atan z ~ z (PI/4 + 0.273 (1 - z)) on [0, 1]
Atan2(y, x) ==
    IF x = 0 /\ y = 0 THEN 0
    ELSE
    LET k == Max(Abs(x), Abs(y)) \div 100000 + 1
        ax == Abs(x) \div k
        ay == Abs(y) \div k
        lo == Min(ax, ay)
        hi == Max(ax, ay)
        z == IF hi = 0 THEN 0 ELSE (1000 * lo) \div hi
        t == (z * (785 + (273 * (1000 - z)) \div 1000)) \div 1000
        b == IF ay > ax THEN HalfPI - t ELSE t
        h == IF x < 0 THEN PI - b ELSE b
    IN  IF y < 0 THEN -h ELSE h

\* floor(25 * log10(s)) for a score s >= 10 points given in milli-points:
\* 25 per decade plus the number of 25th-root-of-ten steps the mantissa passed.
LogSteps ==
    <<1097, 1203, 1319, 1446, 1585, 1738, 1906, 2090, 2291, 2512, 2755, 3020,
      3312, 3631, 3982, 4366, 4787, 5249, 5755, 6310, 6919, 7586, 8318, 9121>>
RECURSIVE Decade(_)
Decade(s) == IF s < 10 * Pt THEN 0 ELSE 1 + Decade(s \div 10)
RECURSIVE Pow10(_)
Pow10(n) == IF n = 0 THEN 1 ELSE 10 * Pow10(n - 1)
Log10x25(s) ==
    LET d == Decade(s)
        m == s \div Pow10(d)
    IN  25 * d + Cardinality({k \in 1..24 : m >= LogSteps[k]})


\* ------------------------------------------------------------------------
\* Vector (game.js 82-91): a point is a pair <<x, y>>
\* ------------------------------------------------------------------------
VAdd(p, q) == <<p[1] + q[1], p[2] + q[2]>>
MagGT(p, r) == DistGT(p[1], p[2], r)
PDistGT(p, q, r) == DistGT(p[1] - q[1], p[2] - q[2], r)
PDistLT(p, q, r) == DistLT(p[1] - q[1], p[2] - q[2], r)

\* ------------------------------------------------------------------------
\* Snake (game.js 177-410)
\* ------------------------------------------------------------------------

\* A faulty width law: the floor max(10, score) under the logarithm is left out
calculateWidthNoFloor(score) == Min(500 * Px, 15 * Px + Log10x25(score) * Px)

\* Snake.calculateWidth: min(500, 15 + log10(max(10, score)) * 25)
calculateWidth(score) ==
    Min(500 * Px, 15 * Px + Log10x25(Max(10 * Pt, score)) * Px)

\* A faulty target length: the base of 200 is left out
calculateTargetLengthNoBase(score) == Min(8000 * Px, Quot(score, 10))

\* Snake.calculateTargetLength: min(8000, 200 + score * 0.1)
calculateTargetLength(score) ==
    Min(8000 * Px, 200 * Px + Quot(score, 10))

\* Snake.getPathSpacing: max(width * 0.5, width * 1.0)
getPathSpacing(width) == Max(Quot(width, 2), width)

\* The constructor's pre-filled path: for (i = 0; i < startLen; i += spacing)
\* path.push(pos + dir * i), with dir = -(cos angle, sin angle)
PreFill(pos, angle, startLen, spacing) ==
    LET n == (startLen + spacing - 1) \div spacing
    IN  [k \in 1..n |->
            <<pos[1] + MulK(-Cos(angle), (k - 1) * spacing),
              pos[2] + MulK(-Sin(angle), (k - 1) * spacing)>>]

\* new Snake(name, isBot, startScore); oid is the object's identity, and
\* id, pos, angle are the constructor's Math.random() draws.
NewSnake(oid, isBot, id, pos, angle, startScore) ==
    LET w == calculateWidth(startScore)
    IN  [oid |-> oid, isBot |-> isBot, id |-> id,
         pos |-> pos, angle |-> angle, targetAngle |-> angle,
         score |-> startScore, width |-> w, targetWidth |-> w,
         path |-> PreFill(pos, angle, calculateTargetLength(startScore),
                          Quot(w, 2)),
         dead |-> FALSE, multiplier |-> 1, multiplierTimer |-> 0,
         changeDirTimer |-> 0, wantBoost |-> FALSE, boostCooldown |-> 0]

\* A faulty decay: the multiplier survives the frame that brings the timer
\* to exactly zero
MultiplierDecayLate(s, dt) ==
    IF s.multiplier > 1
    THEN LET t == s.multiplierTimer - dt
         IN  [s EXCEPT !.multiplierTimer = t,
                       !.multiplier = IF t < 0 THEN 1 ELSE @]
    ELSE s

\* Snake.update, step 1: multiplier decay (game.js 236-240)
MultiplierDecay(s, dt) ==
    IF s.multiplier > 1
    THEN LET t == s.multiplierTimer - dt
         IN  [s EXCEPT !.multiplierTimer = t,
                       !.multiplier = IF t <= 0 THEN 1 ELSE @]
    ELSE s

\* The shortest signed difference in (-PI, PI] (game.js 243-245)
AngleDiff(target, angle) ==
    LET t == (target - angle) % TwoPI
    IN  IF t > PI THEN t - TwoPI ELSE t

\* turnRate * dt with turnRate = turnSpeed * (30 / (width + 10)) (248-249)
TurnAmount(width, dt) == Quot(turnSpeed * 30 * dt * Px, width + 10 * Px)

\* A faulty turn: the step is always the whole turn amount
TurnUnclamped(s, dt) ==
    [s EXCEPT !.angle = @ + Sign(AngleDiff(s.targetAngle, s.angle))
                              * TurnAmount(s.width, dt)]

\* Snake.update, step 2: turning (game.js 242-255)
Turn(s, dt) ==
    LET diff == AngleDiff(s.targetAngle, s.angle)
        turnAmount == TurnAmount(s.width, dt)
    IN  IF Abs(diff) < turnAmount
        THEN [s EXCEPT !.angle = s.targetAngle]
        ELSE [s EXCEPT !.angle = @ + Sign(diff) * turnAmount]

\* let boosting = (!isBot && mouseDown) || (isBot && wantBoost) (261)
Boosting(s, mDown) == (~s.isBot /\ mDown) \/ (s.isBot /\ s.wantBoost)

\* A faulty boost test: the score floor is not looked at
BoostWithoutFloor(s, mDown) == Boosting(s, mDown)

\* if (boosting && this.score > 50) (262)
BoostGranted(s, mDown) == Boosting(s, mDown) /\ s.score > 50 * Pt

\* A faulty speed selection: every agent that is not boosting gets the base
\* speed, a wide bot included
CurrentSpeedNoPenalty(s, mDown) ==
    IF BoostGranted(s, mDown) THEN boostSpeed ELSE baseSpeed

\* currentSpeed (game.js 258-263)
CurrentSpeed(s, mDown) ==
    IF BoostGranted(s, mDown) THEN boostSpeed
    ELSE IF s.isBot /\ s.width > 100 * Px THEN (baseSpeed * 9) \div 10
    ELSE baseSpeed

\* this.score -= dt * 25 (264)
BoostCost(dt) == 25 * dt

\* Snake.update, step 3: the score side of boosting (game.js 262-264)
PayBoost(s, mDown, dt) ==
    IF BoostGranted(s, mDown)
    THEN [s EXCEPT !.score = @ - BoostCost(dt)]
    ELSE s

\* Snake.update, step 4: pos = pos + (cos angle, sin angle) * speed * dt (273-274)
Move(s, speed, dt) ==
    [s EXCEPT !.pos = <<@[1] + Quot(Cos(s.angle) * (speed * dt), Sec),
                        @[2] + Quot(Sin(s.angle) * (speed * dt), Sec)>>]

\* A faulty path push: the new point is added at the old end of the path
PushPointAtBack(path, p) ==
    LET q == Append(path, p)
    IN  IF Len(q) > maxPathPoints THEN SubSeq(q, 1, maxPathPoints) ELSE q

\* path.unshift(pos); if (path.length > maxPathPoints) path.length = maxPathPoints
\* (game.js 288-291)
PushPoint(path, p) ==
    LET q == <<p>> \o path
    IN  IF Len(q) > maxPathPoints THEN SubSeq(q, 1, maxPathPoints) ELSE q

\* Snake.update, step 6: path management (game.js 284-292)
PathManagement(s) ==
    IF s.path = <<>> \/ PDistGT(s.pos, s.path[1], getPathSpacing(s.width))
    THEN [s EXCEPT !.path = PushPoint(@, s.pos)]
    ELSE s

\* Array.pop: drops the last element, if any
Pop(path) == IF path = <<>> THEN path ELSE SubSeq(path, 1, Len(path) - 1)

\* Snake.update, step 6b: length management (game.js 294-299)
LengthManagement(s) ==
    IF Len(s.path) * getPathSpacing(s.width) > calculateTargetLength(s.score)
    THEN [s EXCEPT !.path = Pop(@)]
    ELSE s

\* A faulty smoothing: a rate of 30 per second where the code has 2
SmoothGrowthTooFast(s, dt) ==
    LET tw == calculateWidth(s.score)
    IN  [s EXCEPT !.targetWidth = tw,
                  !.width = @ + Quot((tw - @) * dt * 30, Sec)]

\* Snake.update, step 7: smooth growth (game.js 301-303)
SmoothGrowth(s, dt) ==
    LET tw == calculateWidth(s.score)
    IN  [s EXCEPT !.targetWidth = tw,
                  !.width = @ + Quot((tw - @) * dt * 2, Sec)]

\* A faulty bounds test: the agent is marked dead but the update goes on
\* through steps 6-7
MapBoundsNoReturn(b, dt) ==
    LET c == SmoothGrowth(LengthManagement(PathManagement(b)), dt)
    IN  IF MagGT(b.pos, mapSize) THEN [c EXCEPT !.dead = TRUE] ELSE c

\* Snake.update after the move: outside the map the agent is marked dead and
\* the update returns, inside it goes on through steps 6-7 (game.js 276-303)
MapBounds(b, dt) ==
    IF MagGT(b.pos, mapSize) THEN [b EXCEPT !.dead = TRUE]
    ELSE SmoothGrowth(LengthManagement(PathManagement(b)), dt)

\* Snake.update(dt) on the agent itself.  mDown is the global mouseDown.
\* The result carries the agent and what update does to the globals:
\* pellet (a boost pellet is pushed to foods when dropRnd, the draw
\* Math.random() < 0.3, holds) and died (death effects are triggered);
\* ran tells whether the call got past `if (this.dead) return`, and
\* boosting and speed are its locals.
SnakeUpdate(s, dt, mDown, dropRnd) ==
    IF s.dead THEN [s |-> s, pellet |-> <<>>, died |-> FALSE, ran |-> FALSE,
                    boosting |-> FALSE, speed |-> 0]
    ELSE
    LET a == Turn(MultiplierDecay(s, dt), dt)
        speed == CurrentSpeed(a, mDown)
        pellet == IF BoostGranted(a, mDown) /\ dropRnd /\ a.path # <<>>
                  THEN <<a.path[Len(a.path)]>> ELSE <<>>
        b == Move(PayBoost(a, mDown, dt), speed, dt)
        out == [pellet |-> pellet, ran |-> TRUE,
                boosting |-> Boosting(a, mDown), speed |-> speed]
    IN  [s |-> MapBounds(b, dt), died |-> MagGT(b.pos, mapSize)] @@ out

\* A faulty grow: the factor 10 is left out
GrowUnscaled(s, amount) == [s EXCEPT !.score = @ + amount * s.multiplier]

\* Snake.grow(amount): score += amount * multiplier * 10 (game.js 407-409)
Grow(s, amount) == [s EXCEPT !.score = @ + amount * s.multiplier * 10]


\* ------------------------------------------------------------------------
\* Program state (game.js 18-39, 78)
\* ------------------------------------------------------------------------
VARIABLES
    player,       \* <<>> while `player` is undefined, else <<the player Snake>>
    bots,         \* the bots array
    foods,        \* the foods array: [pos, value]
    powerups,     \* the powerups array: [pos, multiplier]
    particles,    \* the particles array: [pos, life, n], one entry per burst
    grid,         \* spatialHash.grid: cell <<cx, cy>> -> array of object ids
    gameRunning,
    frameCount,
    mouseDown,
    mouse,        \* <<mouse.x - canvas.width/2, mouse.y - canvas.height/2>>
    pending,      \* gameLoop callbacks scheduled by requestAnimationFrame
    pc,           \* position of the running frame callback ("idle": none runs)
    idx,          \* index of the agent the current pass has reached
    dt,           \* gameLoop's dt of the current frame, in ms
    nextOid,      \* identity of the next object constructed
    inputs,       \* input events handled so far
    boosting,     \* the local `boosting` of the latest Snake.update that ran
    currentSpeed, \* the local `currentSpeed` of the latest Snake.update that ran
    snapshot      \* [player, ...bots] as the running frame's update() found
                  \* them (history: the program keeps no such copy)

vars == <<player, bots, foods, powerups, particles, grid, gameRunning,
          frameCount, mouseDown, mouse, pending, pc, idx, dt, nextOid, inputs,
          boosting, currentSpeed, snapshot>>

\* What the handlers outside a frame's agent updates leave alone: the locals
\* of Snake.update that outlive the call in this model, and the history
locals == <<boosting, currentSpeed, snapshot>>

\* const allSnakes = [player, ...bots] (game.js 665)
Agents == player \o bots

\* The object a reference held by the grid points to
SnakeOf(oid) == CHOOSE s \in {Agents[i] : i \in 1..Len(Agents)} : s.oid = oid

\* ------------------------------------------------------------------------
\* SpatialHash (game.js 42-78)
\* ------------------------------------------------------------------------
cellSize == 1000 * Px

\* A faulty cell index: v / cellSize cut toward zero, as (v / cellSize) | 0 does
CellCoordTruncated(v) == Quot(v, cellSize)

\* Math.floor(v / this.cellSize)
CellCoord(v) == v \div cellSize

\* SpatialHash.insert(obj)
Insert(g, oid, pos) ==
    LET k == <<CellCoord(pos[1]), CellCoord(pos[2])>>
    IN  IF k \in DOMAIN g
        THEN [g EXCEPT ![k] = Append(@, oid)]
        ELSE [c \in DOMAIN g \cup {k} |-> IF c = k THEN <<oid>> ELSE g[c]]

\* SpatialHash.clear()
EmptyGrid == [c \in {} |-> <<>>]

\* SpatialHash.retrieve(rect): the cells sx..ex, sy..ey in loop order
RECURSIVE RetrieveFrom(_, _, _, _, _, _)
RetrieveFrom(g, x, y, sy, ex, ey) ==
    IF x > ex THEN <<>>
    ELSE IF y > ey THEN RetrieveFrom(g, x + 1, sy, sy, ex, ey)
    ELSE (IF <<x, y>> \in DOMAIN g THEN g[<<x, y>>] ELSE <<>>)
         \o RetrieveFrom(g, x, y + 1, sy, ex, ey)

Retrieve(g, rx, ry, rw, rh) ==
    RetrieveFrom(g, CellCoord(rx), CellCoord(ry), CellCoord(ry),
                 CellCoord(rx + rw), CellCoord(ry + rh))

\* update(): spatialHash.clear(); insert(player); insert every live bot
\* (game.js 618-623)
RECURSIVE InsertBots(_, _, _)
InsertBots(g, bs, i) ==
    IF i > Len(bs) THEN g
    ELSE InsertBots(IF bs[i].dead THEN g ELSE Insert(g, bs[i].oid, bs[i].pos),
                    bs, i + 1)

Rebuild(p, bs) == InsertBots(Insert(EmptyGrid, p.oid, p.pos), bs, 1)

\* The cell an object at pos is filed under
CellOf(pos) == <<CellCoord(pos[1]), CellCoord(pos[2])>>

\* ------------------------------------------------------------------------
\* Food, PowerUp, particles (game.js 95-145, 756-778)
\* ------------------------------------------------------------------------
RECURSIVE SqrtBetween(_, _, _)
SqrtBetween(n, lo, hi) ==
    IF lo >= hi THEN lo
    ELSE LET mid == (lo + hi + 1) \div 2
         IN  IF mid * mid <= n THEN SqrtBetween(n, mid, hi)
             ELSE SqrtBetween(n, lo, mid - 1)
\* floor(sqrt(n)) for 0 <= n < 2^31
ISqrt(n) == SqrtBetween(n, 0, 46340)

\* pos.norm().mult(mapSize - 50), the direction taken at 10 px resolution
ClampToMap(pos) ==
    LET X == Quot(pos[1], 10 * Px)
        Y == Quot(pos[2], 10 * Px)
        m == ISqrt(X * X + Y * Y)
    IN  <<Quot(X * ((mapSize \div Px) - 50), m) * Px,
          Quot(Y * ((mapSize \div Px) - 50), m) * Px>>

\* new Food(x, y, value): a coordinate that is 0 (falsy) is drawn at random
\* (rnd); a position outside the map is pulled back onto it.
NewFood(x, y, value, rnd) ==
    LET p == <<IF x = 0 THEN rnd[1] ELSE x, IF y = 0 THEN rnd[2] ELSE y>>
    IN  [pos |-> IF MagGT(p, mapSize) THEN ClampToMap(p) ELSE p,
         value |-> value]

\* this.radius = 15 + (value * 3)
FoodRadius(f) == 15 * Px + 3 * f.value

\* new PowerUp(): random position, multiplier tier 2, 5 or 10
NewPowerUp(rnd, tier) ==
    [pos |-> IF MagGT(rnd, mapSize) THEN ClampToMap(rnd) ELSE rnd,
     multiplier |-> tier]
powerUpRadius == 40 * Px

\* dropFood(snake): one Food of value max(1, floor(width / 5)) for every
\* step-th path point, step = max(1, floor(width / 10)); jit is the draw
\* (Math.random() - 0.5) * 2 in thousandths, scaled by the width.
RECURSIVE DropFrom(_, _, _, _, _)
DropFrom(s, i, step, jit, rnd) ==
    IF i > Len(s.path) THEN <<>>
    ELSE <<NewFood(s.path[i][1] + Quot(jit[1] * s.width, 1000),
                   s.path[i][2] + Quot(jit[2] * s.width, 1000),
                   Max(1, s.width \div (5 * Px)) * Pt, rnd)>>
         \o DropFrom(s, i + step, step, jit, rnd)
DropFood(s, jit, rnd) == DropFrom(s, 1, Max(1, s.width \div (10 * Px)), jit, rnd)

\* spawnParticles(pos, 50, color): the 50 particles of one burst differ only
\* in velocity and are kept as one entry with its count.
burstSize == 50
SpawnParticles(pos) == <<[pos |-> pos, life |-> 1000, n |-> burstSize]>>

\* The particle pass of update(): life -= dt * 2; dead ones are spliced out
\* (game.js 638-644)
RECURSIVE DecayParticles(_, _)
DecayParticles(ps, d) ==
    IF ps = <<>> THEN <<>>
    ELSE (IF Head(ps).life - 2 * d <= 0 THEN <<>>
          ELSE <<[Head(ps) EXCEPT !.life = @ - 2 * d]>>)
         \o DecayParticles(Tail(ps), d)

\* particles.length
ParticleCount(ps) ==
    LET RECURSIVE Sum(_)
        Sum(q) == IF q = <<>> THEN 0 ELSE Head(q).n + Sum(Tail(q))
    IN  Sum(ps)


\* ------------------------------------------------------------------------
\* Bot (game.js 412-501)
\* ------------------------------------------------------------------------

\* The path indices 0, step, 2 step, ... of a sampling loop (1-based here)
Samples(path, step) == {i \in 1..Len(path) : (i - 1) % step = 0}

\* A faulty throttle: the stagger by id is left out
ShouldScanUnstaggered(s, fc) == fc % 5 = 0

\* const shouldScan = (frameCount + this.id) % 5 === 0
ShouldScan(s, fc) == (fc + s.id) % 5 = 0

LookDist(s) == s.width * 4 + 200 * Px
CheckPos(s) == <<s.pos[1] + MulK(Cos(s.angle), LookDist(s)),
                 s.pos[2] + MulK(Sin(s.angle), LookDist(s))>>

\* 1. Map bounds: checkPos.mag() > mapSize - 200
BoundaryDanger(s) == MagGT(CheckPos(s), mapSize - 200 * Px)

\* A faulty distance test: the sum of the half widths where the code has
\* the sum of the widths
SenseHitHalfWidths(s, o) ==
    /\ o.oid # s.oid
    /\ ~o.dead
    /\ \E i \in Samples(o.path, Max(5, Len(o.path) \div 10)) :
           PDistLT(CheckPos(s), o.path[i], Quot(s.width + o.width, 2))

\* 2. Snake collision: some sampled path point of another live agent found
\* through the grid is closer to checkPos than this.width + other.width
SenseHit(s, o) ==
    /\ o.oid # s.oid
    /\ ~o.dead
    /\ \E i \in Samples(o.path, Max(5, Len(o.path) \div 10)) :
           PDistLT(CheckPos(s), o.path[i], s.width + o.width)

CollisionDanger(s, g) ==
    LET nearby == Retrieve(g, s.pos[1] - LookDist(s), s.pos[2] - LookDist(s),
                           2 * LookDist(s), 2 * LookDist(s))
    IN  \E j \in 1..Len(nearby) : SenseHit(s, SnakeOf(nearby[j]))

\* 3. No danger: wander and boost occasionally.  rnd holds the draws:
\* delta = (Math.random() - 0.5) * 2.0, timer = 2 + Math.random() * 2,
\* on = Math.random() < 0.05, off = Math.random() < 0.2
Wander(s, d, rnd) ==
    LET t == s.changeDirTimer - 5 * d
        c == IF s.boostCooldown > 0 THEN s.boostCooldown - 5 * d
             ELSE s.boostCooldown
    IN  [s EXCEPT
           !.targetAngle = IF t <= 0 THEN @ + rnd.delta ELSE @,
           !.changeDirTimer = IF t <= 0 THEN rnd.timer ELSE t,
           !.wantBoost = IF c <= 0 /\ rnd.on THEN TRUE
                         ELSE IF @ /\ rnd.off THEN FALSE ELSE @,
           !.boostCooldown = IF c <= 0 /\ rnd.on THEN 2 * Sec ELSE c]

\* A faulty scan: the snake-collision check is not guarded by `!danger`, so
\* its dodge lands on top of the turn toward the centre
ScanDodgeUnguarded(s, g, d, rnd) ==
    IF BoundaryDanger(s)
    THEN [s EXCEPT !.targetAngle = Atan2(-s.pos[2], -s.pos[1])
                                     + (IF CollisionDanger(s, g) THEN HalfPI ELSE 0),
                   !.wantBoost = TRUE]
    ELSE IF CollisionDanger(s, g)
    THEN [s EXCEPT !.targetAngle = @ + HalfPI, !.wantBoost = TRUE]
    ELSE Wander(s, d, rnd)

\* The AI part of Bot.update (game.js 436-497)
Scan(s, g, d, rnd) ==
    IF BoundaryDanger(s)
    THEN [s EXCEPT !.targetAngle = Atan2(-s.pos[2], -s.pos[1]),
                   !.wantBoost = TRUE]
    ELSE IF CollisionDanger(s, g)
    THEN [s EXCEPT !.targetAngle = @ + HalfPI, !.wantBoost = TRUE]
    ELSE Wander(s, d, rnd)

\* Bot.update(dt) up to its call of super.update(dt)
BotThink(s, g, fc, d, rnd) ==
    IF ~s.dead /\ ShouldScan(s, fc) THEN Scan(s, g, d, rnd) ELSE s

\* ------------------------------------------------------------------------
\* checkCollisions (game.js 664-754)
\* ------------------------------------------------------------------------

\* The food test of one agent against one food item (game.js 702-705)
FoodHit(s, f) ==
    /\ ~(Abs(s.pos[1] - f.pos[1]) > s.width + FoodRadius(f))
    /\ ~(Abs(s.pos[2] - f.pos[2]) > s.width + FoodRadius(f))
    /\ PDistLT(s.pos, f.pos, Quot(s.width, 2) + FoodRadius(f))

\* for (i = foods.length - 1; i >= 0; i--): grow and splice on a hit.
\* The result is the agent and the foods left.
RECURSIVE EatFrom(_, _, _)
EatFrom(s, fs, i) ==
    IF i < 1 THEN [s |-> s, foods |-> fs]
    ELSE IF FoodHit(s, fs[i])
    THEN EatFrom(Grow(s, fs[i].value),
                 SubSeq(fs, 1, i - 1) \o SubSeq(fs, i + 1, Len(fs)), i - 1)
    ELSE EatFrom(s, fs, i - 1)

\* s.multiplier = p.multiplier; s.multiplierTimer = 10 (game.js 715-716)
multiplierDuration == 10 * Sec

\* A faulty pickup: the timer is left as it was
ApplyPowerUpKeepingTimer(s, p) == [s EXCEPT !.multiplier = p.multiplier]

ApplyPowerUp(s, p) ==
    [s EXCEPT !.multiplier = p.multiplier, !.multiplierTimer = multiplierDuration]

PowerUpHit(s, p) == PDistLT(s.pos, p.pos, Quot(s.width, 2) + powerUpRadius)

\* A faulty pickup: the power-up is applied but not spliced out
RECURSIVE TakeFromKeeping(_, _, _)
TakeFromKeeping(s, ps, i) ==
    IF i < 1 THEN [s |-> s, powerups |-> ps]
    ELSE IF PowerUpHit(s, ps[i])
    THEN TakeFromKeeping(ApplyPowerUp(s, ps[i]), ps, i - 1)
    ELSE TakeFromKeeping(s, ps, i - 1)

\* for (i = powerups.length - 1; i >= 0; i--) (game.js 712-719)
RECURSIVE TakeFrom(_, _, _)
TakeFrom(s, ps, i) ==
    IF i < 1 THEN [s |-> s, powerups |-> ps]
    ELSE IF PowerUpHit(s, ps[i])
    THEN TakeFrom(ApplyPowerUp(s, ps[i]),
                  SubSeq(ps, 1, i - 1) \o SubSeq(ps, i + 1, Len(ps)), i - 1)
    ELSE TakeFrom(s, ps, i - 1)

\* A faulty first loop: a dead agent collects like a live one
CollectAlways(s, fs, ps) ==
    LET f == EatFrom(s, fs, Len(fs))
        u == TakeFrom(f.s, ps, Len(ps))
    IN  [s |-> u.s, foods |-> f.foods, powerups |-> u.powerups]

\* One round of the first loop of checkCollisions: if (s.dead) continue;
\* food, then power-ups (game.js 667-720)
Collect(s, fs, ps) ==
    IF s.dead THEN [s |-> s, foods |-> fs, powerups |-> ps]
    ELSE LET f == EatFrom(s, fs, Len(fs))
             u == TakeFrom(f.s, ps, Len(ps))
         IN  [s |-> u.s, foods |-> f.foods, powerups |-> u.powerups]

\* Head of s1 against the sampled body of s2 (game.js 732-748):
\* step = max(2, floor(s2.width / 5)), minDist = s1.width * 0.35 + s2.width / 2
BodyHit(s1, s2) ==
    /\ s1.oid # s2.oid
    /\ ~s2.dead
    /\ \E i \in Samples(s2.path, Max(2, s2.width \div (5 * Px))) :
           PDistLT(s1.pos, s2.path[i],
                   Quot(35 * s1.width, 100) + Quot(s2.width, 2))

\* The neighbours the grid query around s1's head returns (game.js 727-729)
Nearby(s1, g) ==
    Retrieve(g, s1.pos[1] - 100 * Px, s1.pos[2] - 100 * Px, 200 * Px, 200 * Px)

\* Whether s1 dies in the snake-vs-snake pass (game.js 726-750)
HeadCollides(s1, g) ==
    \E j \in 1..Len(Nearby(s1, g)) : BodyHit(s1, SnakeOf(Nearby(s1, g)[j]))

\* A faulty check: the agent whose body was hit is marked dead as well
CollisionVictimsBoth(s1, g) ==
    IF ~s1.dead /\ HeadCollides(s1, g)
    THEN {s1.oid} \cup {Nearby(s1, g)[j] : j \in
                          {h \in 1..Len(Nearby(s1, g)) :
                               BodyHit(s1, SnakeOf(Nearby(s1, g)[h]))}}
    ELSE {}

\* A faulty check: an agent that is dead already is run through it too
CollisionVictimsOfDead(s1, g) ==
    IF HeadCollides(s1, g) THEN {s1.oid} ELSE {}

\* The objects s1's check marks dead: s1 itself on the first hit, else none
\* (game.js 741-748)
CollisionVictims(s1, g) ==
    IF ~s1.dead /\ HeadCollides(s1, g) THEN {s1.oid} ELSE {}

\* A faulty elimination: the victims are taken out of the array on the spot
MarkDeadRemoving(as, victims) ==
    SelectSeq(as, LAMBDA a : a.oid \notin victims)

\* The agents with the victims marked dead
MarkDead(as, victims) ==
    [i \in 1..Len(as) |->
        IF as[i].oid \in victims THEN [as[i] EXCEPT !.dead = TRUE] ELSE as[i]]

\* ------------------------------------------------------------------------
\* Bounds of the model and the draws of Math.random() it explores
\* ------------------------------------------------------------------------
botCount == 2        \* CONFIG.botCount, scaled down
foodCount == 2       \* CONFIG.foodCount, scaled down
MaxFrames == 3       \* frames a run goes through
MaxObjects == 6      \* Snake objects startGame may have constructed
MaxInputs == 2       \* mouse / touch events a run handles
maxPowerups == 50
maxDt == 50

\* timestamp - lastTime of a frame, in ms: a fast frame, a hitch
Elapsed == {20, 3000}

\* The spawn point of the scenarios: inside cell (0, 0), off the axes
Home == <<500 * Px, 500 * Px>>
Edge == <<99980 * Px, 500 * Px>>

\* A spawn point near a corner of the square the constructor draws from,
\* (Math.random() - 0.5) * mapSize * 1.5 on each axis: 104652 px from the
\* origin
Corner == <<74000 * Px, 74000 * Px>>

\* new Bot(): position, heading, start score and id drawn.  Seen from a
\* player at Home heading east: one bot whose neck lies across the player's
\* way, one alongside that bot 30 px further on, one that dives at the
\* player's neck, one far away.
Crossing == [pos |-> VAdd(Home, <<70 * Px, 0>>), angle |-> HalfPI,
             score |-> 100 * Pt, id |-> 4]
Diving == [pos |-> VAdd(Home, <<0, 90 * Px>>), angle |-> -HalfPI,
           score |-> 100 * Pt, id |-> 3]
Remote == [pos |-> <<-3500 * Px, -2500 * Px>>, angle |-> PI,
           score |-> 3000 * Pt, id |-> 2]
Beside == [pos |-> VAdd(Home, <<100 * Px, 0>>), angle |-> HalfPI,
           score |-> 100 * Pt, id |-> 1]

\* A bot 230 px short of the player's spawn at Edge, heading north: its
\* forward probe, 460 px ahead, ends 68 px from the sixth path point of that
\* player and inside the boundary margin
Lurking == [pos |-> <<99750 * Px, 40 * Px>>, angle |-> HalfPI,
            score |-> 100 * Pt, id |-> 4]

\* A bot just inside the boundary next to the player's spawn at Edge,
\* heading back west: the newest point of its path stays within 55 px of
\* where the head of that player is after the player's first update,
\* inside the map or out of it
Waiting == [pos |-> VAdd(Edge, <<10 * Px, -40 * Px>>), angle |-> PI,
            score |-> 100 * Pt, id |-> 1]

\* new Food(): position drawn
FoodAhead == VAdd(Home, <<60 * Px, 0>>)
FoodAway == <<-5000 * Px, -5000 * Px>>

\* The joint draws of one resetGameLogic: the player's position and heading,
\* and the draws of every new Bot() and new Food()
Layouts ==
    { [pos |-> Home, angle |-> 0, bots |-> <<Diving, Remote>>,
       foods |-> <<FoodAhead, FoodAway>>],
      [pos |-> Home, angle |-> 0, bots |-> <<Crossing, Beside>>,
       foods |-> <<FoodAhead, FoodAhead>>],
      [pos |-> Edge, angle |-> 0, bots |-> <<Waiting, Lurking>>,
       foods |-> <<FoodAway, FoodAway>>],
      [pos |-> Corner, angle |-> 0, bots |-> <<Remote, Remote>>,
       foods |-> <<FoodAway, FoodAway>>] }

\* new PowerUp(): position and tier drawn
PowerUpSpawns ==
    { [pos |-> VAdd(Home, <<90 * Px, 0>>), tier |-> 5] }

\* mouse offsets from the canvas centre, in screen pixels
MouseOffsets == { <<0, 0>>, <<0, 100>> }

\* Draws of Bot.update's wander branch and of the scatter of dropFood
ScanDraws ==
    { [delta |-> 500, timer |-> 2 * Sec, on |-> b, off |-> b] : b \in BOOLEAN }
Jitters == { <<900, -900>> }

\* ------------------------------------------------------------------------
\* Handlers
\* ------------------------------------------------------------------------

\* A faulty reset of the hash: clear() is left out, the frame's insertions
\* go on top of what the grid holds
RebuildWithoutClear(p, bs) == InsertBots(Insert(grid, p.oid, p.pos), bs, 1)

\* update(), Spatial Hash Reset (game.js 618-623)
HashReset(p, bs) == Rebuild(p, bs)

Init ==
    /\ player = <<>>
    /\ bots = <<>>
    /\ foods = <<>>
    /\ powerups = <<>>
    /\ particles = <<>>
    /\ grid = EmptyGrid
    /\ gameRunning = FALSE
    /\ frameCount = 0
    /\ mouseDown = FALSE
    /\ mouse = <<0, 0>>
    /\ pending = 0
    /\ pc = "idle"
    /\ idx = 0
    /\ dt = 0
    /\ nextOid = 1
    /\ inputs = 0
    /\ boosting = FALSE
    /\ currentSpeed = 0
    /\ snapshot = <<>>

\* new Bot() with the draws b; its object id is oid
NewBot(oid, b) == NewSnake(oid, TRUE, b.id, b.pos, b.angle, b.score)

\* startGame / resetGame (game.js 575-602): resetGameLogic, gameRunning = true,
\* requestAnimationFrame(gameLoop)
StartGame ==
    /\ UNCHANGED locals
    /\ pc = "idle" /\ ~gameRunning
    /\ nextOid + botCount < MaxObjects + 1
    /\ \E l \in Layouts :
          /\ player' = <<NewSnake(nextOid, FALSE, 0, l.pos, l.angle, 100 * Pt)>>
          /\ bots' = [i \in 1..botCount |->
                       NewBot(nextOid + i, IF i <= Len(l.bots) THEN l.bots[i]
                                           ELSE Remote)]
          /\ foods' = [i \in 1..foodCount |->
                        NewFood(0, 0, Pt, IF i <= Len(l.foods) THEN l.foods[i]
                                          ELSE FoodAway)]
    /\ powerups' = <<>>
    /\ particles' = <<>>
    /\ nextOid' = nextOid + botCount + 1
    /\ gameRunning' = TRUE
    /\ pending' = pending + 1
    /\ UNCHANGED <<grid, frameCount, mouseDown, mouse, pc, idx, dt, inputs>>

\* An input event is explored while the run has events and frames left
InputLeft == pc = "idle" /\ inputs < MaxInputs /\ frameCount < MaxFrames

\* window 'mousedown' / 'touchstart' and 'mouseup' / 'touchend' (522-547)
MouseDown ==
    /\ UNCHANGED locals
    /\ InputLeft /\ ~mouseDown
    /\ mouseDown' = TRUE
    /\ inputs' = inputs + 1
    /\ UNCHANGED <<player, bots, foods, powerups, particles, grid, gameRunning,
                   frameCount, mouse, pending, pc, idx, dt, nextOid>>

MouseUp ==
    /\ UNCHANGED locals
    /\ InputLeft /\ mouseDown
    /\ mouseDown' = FALSE
    /\ inputs' = inputs + 1
    /\ UNCHANGED <<player, bots, foods, powerups, particles, grid, gameRunning,
                   frameCount, mouse, pending, pc, idx, dt, nextOid>>

\* window 'mousemove' / 'touchmove' (514-520, 565-568)
MouseMove ==
    /\ UNCHANGED locals
    /\ InputLeft
    /\ \E m \in MouseOffsets : m # mouse /\ mouse' = m
    /\ inputs' = inputs + 1
    /\ UNCHANGED <<player, bots, foods, powerups, particles, grid, gameRunning,
                   frameCount, mouseDown, pending, pc, idx, dt, nextOid>>

\* const dt = Math.min((timestamp - lastTime) / 1000, 0.05) (game.js 607)
ClampDt(elapsed) == Min(elapsed, maxDt)

\* Player input of update() (game.js 626-632)
ApplyInput(p, m) ==
    IF DistGT(m[1], m[2], 10) THEN [p EXCEPT !.targetAngle = Atan2(m[2], m[1])]
    ELSE p

\* gameLoop with gameRunning false: the callback returns (game.js 605)
FrameSkip ==
    /\ UNCHANGED locals
    /\ pc = "idle" /\ pending > 0 /\ ~gameRunning
    /\ pending' = pending - 1
    /\ UNCHANGED <<player, bots, foods, powerups, particles, grid, gameRunning,
                   frameCount, mouseDown, mouse, pc, idx, dt, nextOid, inputs>>

\* gameLoop up to the entity updates: dt, frameCount++, the grid rebuilt,
\* the player's input applied (game.js 604-632)
FrameStart ==
    /\ UNCHANGED <<boosting, currentSpeed>>
    /\ snapshot' = Agents
    /\ pc = "idle" /\ pending > 0 /\ gameRunning
    /\ frameCount < MaxFrames
    /\ \E e \in Elapsed : dt' = ClampDt(e)
    /\ frameCount' = frameCount + 1
    /\ pending' = pending - 1
    /\ grid' = HashReset(player[1], bots)
    /\ player' = <<ApplyInput(player[1], mouse)>>
    /\ pc' = "update"
    /\ idx' = 1
    /\ UNCHANGED <<bots, foods, powerups, particles, gameRunning, mouseDown,
                   mouse, nextOid, inputs>>

\* What one agent's update pushes to foods and particles: the boost pellet,
\* and on death the burst and the food dropped along the path
Effects(r, jit, rnd) ==
    [foods |-> [i \in 1..Len(r.pellet) |->
                    NewFood(r.pellet[i][1], r.pellet[i][2], Pt \div 2, rnd)]
               \o (IF r.died THEN DropFood(r.s, jit, rnd) ELSE <<>>),
     particles |-> IF r.died THEN SpawnParticles(r.s.pos) ELSE <<>>]

\* The draws one update can consume: Math.random() < 0.3 of the boost pellet
\* (only when boost is granted), the scatter of dropFood (only on death) and
\* the random coordinate new Food() falls back to
NoDraw == [drop |-> FALSE, jit |-> CHOOSE j \in Jitters : TRUE, rnd |-> FoodAway]
UpdateDraws(s, d, mDown) ==
    IF s.dead THEN {NoDraw}
    ELSE { [drop |-> dr, jit |-> j, rnd |-> FoodAway] :
             dr \in IF BoostGranted(s, mDown) THEN BOOLEAN ELSE {FALSE},
             j \in IF SnakeUpdate(s, d, mDown, FALSE).died THEN Jitters
                   ELSE {CHOOSE j \in Jitters : TRUE} }

\* The draws Bot.update's scan consumes: none unless it reaches the wander branch
ThinkDraws(s, g, fc) ==
    IF ~s.dead /\ ShouldScan(s, fc) /\ ~BoundaryDanger(s) /\ ~CollisionDanger(s, g)
    THEN ScanDraws
    ELSE {CHOOSE r \in ScanDraws : TRUE}

\* player.update(dt) (game.js 635)
UpdatePlayer ==
    /\ pc = "update" /\ idx = 1
    /\ \E draw \in UpdateDraws(player[1], dt, mouseDown) :
          LET r == SnakeUpdate(player[1], dt, mouseDown, draw.drop)
              e == Effects(r, draw.jit, draw.rnd)
          IN  /\ player' = <<r.s>>
              /\ foods' = foods \o e.foods
              /\ particles' = particles \o e.particles
              /\ boosting' = IF r.ran THEN r.boosting ELSE boosting
              /\ currentSpeed' = IF r.ran THEN r.speed ELSE currentSpeed
    /\ idx' = 2
    /\ pc' = IF bots = <<>> THEN "particles" ELSE "update"
    /\ UNCHANGED <<bots, powerups, grid, gameRunning, frameCount, mouseDown,
                   mouse, pending, dt, nextOid, inputs, snapshot>>

\* for (const b of bots) b.update(dt): one bot per step (game.js 636)
UpdateBot ==
    /\ pc = "update" /\ idx > 1
    /\ \E scanRnd \in ThinkDraws(bots[idx - 1], grid, frameCount) :
       \E draw \in UpdateDraws(BotThink(bots[idx - 1], grid, frameCount, dt,
                                        scanRnd), dt, mouseDown) :
          LET b == BotThink(bots[idx - 1], grid, frameCount, dt, scanRnd)
              r == SnakeUpdate(b, dt, mouseDown, draw.drop)
              e == Effects(r, draw.jit, draw.rnd)
          IN  /\ bots' = [bots EXCEPT ![idx - 1] = r.s]
              /\ foods' = foods \o e.foods
              /\ particles' = particles \o e.particles
              /\ boosting' = IF r.ran THEN r.boosting ELSE boosting
              /\ currentSpeed' = IF r.ran THEN r.speed ELSE currentSpeed
    /\ idx' = idx + 1
    /\ pc' = IF idx - 1 = Len(bots) THEN "particles" ELSE "update"
    /\ UNCHANGED <<player, powerups, grid, gameRunning, frameCount, mouseDown,
                   mouse, pending, dt, nextOid, inputs, snapshot>>

\* The particle pass (game.js 638-644)
UpdateParticles ==
    /\ UNCHANGED locals
    /\ pc = "particles"
    /\ particles' = DecayParticles(particles, dt)
    /\ pc' = "pickup"
    /\ idx' = 1
    /\ UNCHANGED <<player, bots, foods, powerups, grid, gameRunning, frameCount,
                   mouseDown, mouse, pending, dt, nextOid, inputs>>

\* Agent k of allSnakes replaced by s
WithAgent(k, s) ==
    /\ player' = IF k = 1 THEN <<s>> ELSE player
    /\ bots' = IF k = 1 THEN bots ELSE [bots EXCEPT ![k - 1] = s]

\* checkCollisions, first loop, one agent per step: food, then power-ups
\* (game.js 667-720)
Pickup ==
    /\ UNCHANGED locals
    /\ pc = "pickup"
    /\ LET c == Collect(Agents[idx], foods, powerups)
       IN  /\ WithAgent(idx, c.s)
           /\ foods' = c.foods
           /\ powerups' = c.powerups
    /\ idx' = IF idx = Len(Agents) THEN 1 ELSE idx + 1
    /\ pc' = IF idx = Len(Agents) THEN "collide" ELSE "pickup"
    /\ UNCHANGED <<particles, grid, gameRunning, frameCount, mouseDown, mouse,
                   pending, dt, nextOid, inputs>>

\* checkCollisions, snake vs snake, one s1 per step (game.js 722-751)
Collide ==
    /\ UNCHANGED locals
    /\ pc = "collide"
    /\ LET s1 == Agents[idx]
           victims == CollisionVictims(s1, grid)
       IN  /\ player' = MarkDead(player, victims)
           /\ bots' = MarkDead(bots, victims)
           /\ IF s1.oid \in victims
              THEN \E jit \in Jitters :
                     /\ particles' = particles \o SpawnParticles(s1.pos)
                     /\ foods' = foods \o DropFood(s1, jit, FoodAway)
              ELSE UNCHANGED <<foods, particles>>
    /\ idx' = IF idx = Len(Agents) THEN 0 ELSE idx + 1
    /\ pc' = IF idx = Len(Agents) THEN "finish" ELSE "collide"
    /\ UNCHANGED <<powerups, grid, gameRunning, frameCount, mouseDown, mouse,
                   pending, dt, nextOid, inputs>>

\* bots = bots.filter(b => !b.dead) (game.js 649)
SelectAlive(bs) == SelectSeq(bs, LAMBDA b : ~b.dead)

\* while (foods.length < foodCount) foods.push(new Food()) (game.js 652)
RefillFoods(fs, rnd) ==
    fs \o [i \in 1..(foodCount - Len(fs)) |-> NewFood(0, 0, Pt, rnd)]

\* A faulty respawn: `if` where the code has `while`, one bot at most
RefillBotsOnce(bs, oid, b) ==
    IF Len(bs) < botCount THEN Append(bs, NewBot(oid, b)) ELSE bs

\* while (bots.length < botCount) bots.push(new Bot()) (game.js 653)
RefillBots(bs, oid, b) ==
    bs \o [i \in 1..(botCount - Len(bs)) |-> NewBot(oid + i - 1, b)]

\* A faulty end of checkCollisions: gameOver() is reached only for a player
\* whose head hit a body, not for one that died at the boundary
RunningAfterBodyHitOnly(p, running) ==
    IF p.dead /\ ~MagGT(p.pos, mapSize) THEN FALSE ELSE running

\* if (player.dead) gameOver(), which sets gameRunning = false
\* (game.js 753, 780-781)
RunningAfter(p, running) == IF p.dead THEN FALSE ELSE running

\* The rest of the frame: if (player.dead) gameOver(); cleanup; spawning;
\* draw(); requestAnimationFrame(gameLoop) (game.js 753, 648-654, 612-614)
Finish ==
    /\ UNCHANGED <<boosting, currentSpeed>>
    /\ snapshot' = <<>>
    /\ pc = "finish"
    /\ gameRunning' = RunningAfter(player[1], gameRunning)
    /\ \E b \in {Remote} :
          bots' = RefillBots(SelectAlive(bots), nextOid, b)
    /\ nextOid' = nextOid + Max(0, botCount - Len(SelectAlive(bots)))
    /\ \E rnd \in {FoodAhead} :
          foods' = RefillFoods(foods, rnd)
    /\ \/ powerups' = powerups
       \/ /\ Len(powerups) < maxPowerups
          /\ \E u \in PowerUpSpawns :
                powerups' = Append(powerups, NewPowerUp(u.pos, u.tier))
    /\ pending' = pending + 1
    /\ pc' = "idle"
    /\ UNCHANGED <<player, particles, grid, frameCount, mouseDown, mouse, idx, dt,
                   inputs>>

Next ==
    \/ StartGame
    \/ MouseDown
    \/ MouseUp
    \/ MouseMove
    \/ FrameSkip
    \/ FrameStart
    \/ UpdatePlayer
    \/ UpdateBot
    \/ UpdateParticles
    \/ Pickup
    \/ Collide
    \/ Finish

Spec == Init /\ [][Next]_vars


\* ------------------------------------------------------------------------
\* One agent on its own: the Snake API driven directly
\* (constructor, update, grow, the power-up pickup, the boost and steering
\* inputs), from the states a game brings an agent to
\* ------------------------------------------------------------------------

\* The agent under study: the player if there is one, else the only bot
Agent == Agents[1]
SetAgent(s) ==
    IF player # <<>> THEN player' = <<s>> /\ bots' = bots
    ELSE bots' = <<s>> /\ player' = player

\* n consecutive frames of update(d) with the boost input held at mDown
RECURSIVE Frames(_, _, _, _)
Frames(s, n, d, mDown) ==
    IF n = 0 \/ s.dead THEN s
    ELSE IF n = 1 THEN SnakeUpdate(s, d, mDown, FALSE).s
    ELSE Frames(Frames(s, n \div 2, d, mDown), n - n \div 2, d, mDown)

Origin == <<0, 0>>
FreshPlayer == NewSnake(1, FALSE, 0, Origin, 0, 100 * Pt)
FreshBot(score) == NewSnake(1, TRUE, 0, Origin, 0, score)

\* Frames of boosting a player has behind it: the score is 100 - 1.25 n
\* until boosting is refused
BoostedFrames == {39, 40, 80}
\* A x5 power-up picked up this many 50 ms frames ago (the timer runs 10 s)
PoweredFrames == {198}
\* Start scores of the four Bot tiers
BotScores == {100 * Pt, 3000 * Pt, 78000 * Pt, 1000000 * Pt}

\* 39 boosted frames of 50 ms and two of 20 ms: the score is 50.25, one
\* short frame above the floor
NearFloor == Frames(Frames(FreshPlayer, 39, maxDt, TRUE), 2, 20, TRUE)

Starts ==
    {FreshPlayer, NearFloor}
    \cup {Frames(FreshPlayer, n, maxDt, TRUE) : n \in BoostedFrames}
    \cup {Frames(ApplyPowerUp(FreshPlayer, [pos |-> Origin, multiplier |-> 5]),
                 n, maxDt, FALSE) : n \in PoweredFrames}
    \cup {FreshBot(sc) : sc \in BotScores}

SnakeInit ==
    /\ \E s \in Starts : IF s.isBot THEN player = <<>> /\ bots = <<s>>
                         ELSE player = <<s>> /\ bots = <<>>
    /\ foods = <<>>
    /\ powerups = <<>>
    /\ particles = <<>>
    /\ grid = EmptyGrid
    /\ gameRunning = TRUE
    /\ frameCount = 0
    /\ mouseDown = FALSE
    /\ mouse = <<0, 0>>
    /\ pending = 0
    /\ pc = "snake"
    /\ idx = 1
    /\ dt = 0
    /\ nextOid = 2
    /\ inputs = 0
    /\ boosting = FALSE
    /\ currentSpeed = 0
    /\ snapshot = <<>>

\* update(d) on the agent, with what it pushes to foods and particles
UpdateAgent(d) ==
    /\ pc = "snake" /\ frameCount < MaxFrames
    /\ dt' = d
    /\ frameCount' = frameCount + 1
    /\ \E draw \in UpdateDraws(Agent, d, mouseDown) :
          LET r == SnakeUpdate(Agent, d, mouseDown, draw.drop)
              e == Effects(r, draw.jit, draw.rnd)
          IN  /\ SetAgent(r.s)
              /\ foods' = foods \o e.foods
              /\ particles' = particles \o e.particles
              /\ boosting' = IF r.ran THEN r.boosting ELSE boosting
              /\ currentSpeed' = IF r.ran THEN r.speed ELSE currentSpeed
    /\ UNCHANGED <<powerups, grid, gameRunning, mouseDown, mouse, pending, pc,
                   idx, nextOid, inputs, snapshot>>

\* A frame of the game loop: dt is clamped (game.js 607)
Tick == \E e \in Elapsed : UpdateAgent(ClampDt(e))

\* update(dt) called with a whole second, as the scenarios of the
\* specification do
WholeSecond == 1 * Sec
CallUpdate == UpdateAgent(WholeSecond)

SnakeInputLeft == pc = "snake" /\ inputs < MaxInputs /\ ~Agent.dead

\* The boost request flips: mouseDown for the player, wantBoost for a bot
ToggleBoost ==
    /\ UNCHANGED locals
    /\ SnakeInputLeft
    /\ IF Agent.isBot
       THEN SetAgent([Agent EXCEPT !.wantBoost = ~@]) /\ UNCHANGED mouseDown
       ELSE mouseDown' = ~mouseDown /\ UNCHANGED <<player, bots>>
    /\ inputs' = inputs + 1
    /\ UNCHANGED <<foods, powerups, particles, grid, gameRunning, frameCount,
                   mouse, pending, pc, idx, dt, nextOid>>

\* The steering target moves (player input, Bot.update's scan)
Steer ==
    /\ UNCHANGED locals
    /\ SnakeInputLeft
    /\ SetAgent([Agent EXCEPT !.targetAngle = IF @ = HalfPI THEN 0 ELSE HalfPI])
    /\ inputs' = inputs + 1
    /\ UNCHANGED <<foods, powerups, particles, grid, gameRunning, frameCount,
                   mouseDown, mouse, pending, pc, idx, dt, nextOid>>

\* s.grow(f.value) for a food of value 1 (ambient) or 13 (dropped by a 65 px body)
FoodValues == {1 * Pt, 13 * Pt}
Eat ==
    /\ UNCHANGED locals
    /\ SnakeInputLeft
    /\ \E v \in FoodValues : SetAgent(Grow(Agent, v))
    /\ inputs' = inputs + 1
    /\ UNCHANGED <<foods, powerups, particles, grid, gameRunning, frameCount,
                   mouseDown, mouse, pending, pc, idx, dt, nextOid>>

\* The power-up pickup of checkCollisions, tier 2, 5 or 10
Tiers == {2, 5, 10}
PowerUp ==
    /\ UNCHANGED locals
    /\ SnakeInputLeft
    /\ \E m \in Tiers :
          SetAgent(ApplyPowerUp(Agent, [pos |-> Agent.pos, multiplier |-> m]))
    /\ inputs' = inputs + 1
    /\ UNCHANGED <<foods, powerups, particles, grid, gameRunning, frameCount,
                   mouseDown, mouse, pending, pc, idx, dt, nextOid>>

SnakeNext ==
    \/ Tick
    \/ CallUpdate
    \/ ToggleBoost
    \/ Steer
    \/ Eat
    \/ PowerUp

SnakeSpec == SnakeInit /\ [][SnakeNext]_vars


\* ------------------------------------------------------------------------
\* The SpatialHash on its own: insert, clear and retrieve driven directly.
\* bots holds the objects inserted since the last clear().
\* ------------------------------------------------------------------------
MaxHashed == 2       \* objects in the grid at a time

\* Coordinates around cell borders, on both sides of zero
HashCoords == {-1000 * Px - 1, -1000 * Px, -1, 0, 1000 * Px}
\* Query rectangles [x, y, w, h]
RectCorners == {-2000 * Px, -1000 * Px, -1, 0}
RectSpans == {0, 1000 * Px, 2000 * Px}
Rects ==
    { [x |-> x, y |-> y, w |-> w, h |-> h] :
        x \in RectCorners, y \in RectCorners, w \in RectSpans, h \in RectSpans }

HashInit ==
    /\ player = <<>>
    /\ bots = <<>>
    /\ foods = <<>>
    /\ powerups = <<>>
    /\ particles = <<>>
    /\ grid = EmptyGrid
    /\ gameRunning = FALSE
    /\ frameCount = 0
    /\ mouseDown = FALSE
    /\ mouse = <<0, 0>>
    /\ pending = 0
    /\ pc = "hash"
    /\ idx = 0
    /\ dt = 0
    /\ nextOid = 1
    /\ inputs = 0
    /\ boosting = FALSE
    /\ currentSpeed = 0
    /\ snapshot = <<>>

\* spatialHash.insert(obj) for a newly constructed bot at a drawn position
HashInsert ==
    /\ pc = "hash" /\ Len(bots) < MaxHashed /\ nextOid < MaxObjects + 1
    /\ \E x \in HashCoords, y \in HashCoords :
          LET b == NewBot(nextOid, [pos |-> <<x, y>>, angle |-> 0,
                                    score |-> 100 * Pt, id |-> 0])
          IN  /\ bots' = Append(bots, b)
              /\ grid' = Insert(grid, b.oid, b.pos)
    /\ nextOid' = nextOid + 1
    /\ UNCHANGED <<player, foods, powerups, particles, gameRunning, frameCount,
                   mouseDown, mouse, pending, pc, idx, dt, inputs, locals>>

\* spatialHash.clear()
HashClear ==
    /\ pc = "hash" /\ bots # <<>>
    /\ grid' = EmptyGrid
    /\ bots' = <<>>
    /\ UNCHANGED <<player, foods, powerups, particles, gameRunning, frameCount,
                   mouseDown, mouse, pending, pc, idx, dt, nextOid, inputs, locals>>

HashNext ==
    \/ HashInsert
    \/ HashClear

HashSpec == HashInit /\ [][HashNext]_vars


\* ------------------------------------------------------------------------
\* The end of a frame on its own: cleanup and spawning (and the reset that
\* may follow), from the states the passes of a frame can leave behind:
\* the player and any of the bots dead, foods eaten or dropped, the
\* power-ups at or next to their cap
\* ------------------------------------------------------------------------

\* A sequence of n items far from every agent
FoodsLeft(n) == [i \in 1..n |-> NewFood(0, 0, Pt, FoodAway)]
PowerUpsLeft(n) == [i \in 1..n |-> NewPowerUp(FoodAway, 2)]

\* powerups.length when the frame ends: none yet, one below the cap, the cap
PowerUpCounts == {0, maxPowerups - 1, maxPowerups}

\* The agent with its dead flag as the passes of the frame left it
Fallen(s, dead) == [s EXCEPT !.dead = dead]

CleanupInit ==
    /\ \E pDead \in BOOLEAN :
          player = <<Fallen(NewSnake(1, FALSE, 0, Home, 0, 100 * Pt), pDead)>>
    /\ \E bDead \in [1..botCount -> BOOLEAN] :
          bots = [i \in 1..botCount |-> Fallen(NewBot(1 + i, Remote), bDead[i])]
    /\ \E n \in 0..(foodCount + 1) : foods = FoodsLeft(n)
    /\ \E n \in PowerUpCounts : powerups = PowerUpsLeft(n)
    /\ particles = <<>>
    /\ grid = Rebuild(NewSnake(1, FALSE, 0, Home, 0, 100 * Pt),
                      [i \in 1..botCount |-> NewBot(1 + i, Remote)])
    /\ gameRunning = TRUE
    /\ frameCount = 1
    /\ mouseDown = FALSE
    /\ mouse = <<0, 0>>
    /\ pending = 0
    /\ pc = "finish"
    /\ idx = 0
    /\ dt = 0
    /\ nextOid = botCount + 2
    /\ inputs = 0
    /\ boosting = FALSE
    /\ currentSpeed = 0
    /\ snapshot = <<NewSnake(1, FALSE, 0, Home, 0, 100 * Pt)>>
                    \o [i \in 1..botCount |-> NewBot(1 + i, Remote)]

CleanupNext ==
    \/ Finish
    \/ StartGame

CleanupSpec == CleanupInit /\ [][CleanupNext]_vars


\* ------------------------------------------------------------------------
\* One bot's update() on its own: each step is one frame as far as that bot
\* is concerned (frameCount++, the grid rebuilt, b.update(dt)), with the
\* other agents standing where the scene puts them.  bots[1] is the bot
\* under study.
\* ------------------------------------------------------------------------
MaxScanFrames == 7   \* frames a run of this bot goes through

\* A bot far from everybody, one frame before its scan and on it
Roaming(id) == [pos |-> <<-3500 * Px, -2500 * Px>>, angle |-> PI,
                score |-> 3000 * Pt, id |-> id]
\* A bot heading east whose probe, 460 px ahead, is past the boundary margin
\* and 42.5 px from the sixth path point of an agent spawned at Edge
Outbound == [pos |-> <<99400 * Px, 500 * Px>>, angle |-> 0,
             score |-> 100 * Pt, id |-> 4]
\* A bot heading north whose probe is 100 px from the sixth path point of
\* an agent spawned at Home (and farther from every other point of it)
Probing == [pos |-> <<337500, 140 * Px>>, angle |-> HalfPI,
            score |-> 100 * Pt, id |-> 99999]
\* A bot heading north whose probe is 111 px from the third path point of
\* an agent spawned at Home, and 137 px from its first and its sixth
Grazing == [pos |-> <<418750, 150 * Px>>, angle |-> HalfPI,
            score |-> 100 * Pt, id |-> 99999]
\* A second agent spawned next to Home
Neighbour == [pos |-> VAdd(Home, <<0, 40 * Px>>), angle |-> 0,
              score |-> 100 * Pt, id |-> 1]

\* The scenes: where the player spawned, whether its update of this frame
\* left it dead, the bot under study and the other bots
Scenes ==
    { [at |-> Home, dead |-> FALSE, bot |-> Roaming(3), others |-> <<>>],
      [at |-> Home, dead |-> FALSE, bot |-> Roaming(99999), others |-> <<>>],
      [at |-> Home, dead |-> FALSE, bot |-> Outbound, others |-> <<>>],
      [at |-> Edge, dead |-> FALSE, bot |-> Outbound, others |-> <<>>],
      [at |-> Edge, dead |-> FALSE, bot |-> Lurking, others |-> <<>>],
      [at |-> Edge, dead |-> TRUE, bot |-> Lurking, others |-> <<>>],
      [at |-> Home, dead |-> FALSE, bot |-> Probing, others |-> <<>>],
      [at |-> Home, dead |-> FALSE, bot |-> Grazing, others |-> <<>>],
      [at |-> Home, dead |-> FALSE, bot |-> Probing, others |-> <<Neighbour>>] }

BotInit ==
    /\ \E sc \in Scenes :
          /\ player = <<Fallen(NewSnake(1, FALSE, 0, sc.at, 0, 100 * Pt), sc.dead)>>
          /\ bots = <<NewBot(2, sc.bot)>>
                      \o [i \in 1..Len(sc.others) |-> NewBot(2 + i, sc.others[i])]
    /\ foods = <<>>
    /\ powerups = <<>>
    /\ particles = <<>>
    /\ grid = EmptyGrid
    /\ gameRunning = TRUE
    /\ frameCount = 0
    /\ mouseDown = FALSE
    /\ mouse = <<0, 0>>
    /\ pending = 0
    /\ pc = "bot"
    /\ idx = 2
    /\ dt = 0
    /\ nextOid = 4
    /\ inputs = 0
    /\ boosting = FALSE
    /\ currentSpeed = 0
    /\ snapshot = <<>>

\* timestamp - lastTime of the frames of this run, in ms: a steady 20 fps
SteadyElapsed == {50}

\* One frame for bots[1]: gameLoop's dt and frameCount++, update()'s hash
\* reset, then b.update(dt) (game.js 607-609, 618-623, 636)
BotFrame ==
    /\ pc = "bot" /\ frameCount < MaxScanFrames
    /\ frameCount' = frameCount + 1
    /\ grid' = HashReset(player[1], bots)
    /\ \E e \in SteadyElapsed :
       \E scanRnd \in ThinkDraws(bots[1], HashReset(player[1], bots),
                                 frameCount + 1) :
       \E draw \in UpdateDraws(BotThink(bots[1], HashReset(player[1], bots),
                                        frameCount + 1, ClampDt(e), scanRnd),
                               ClampDt(e), mouseDown) :
          LET b == BotThink(bots[1], HashReset(player[1], bots),
                            frameCount + 1, ClampDt(e), scanRnd)
              r == SnakeUpdate(b, ClampDt(e), mouseDown, draw.drop)
              ef == Effects(r, draw.jit, draw.rnd)
          IN  /\ dt' = ClampDt(e)
              /\ bots' = [bots EXCEPT ![1] = r.s]
              /\ foods' = foods \o ef.foods
              /\ particles' = particles \o ef.particles
              /\ boosting' = IF r.ran THEN r.boosting ELSE boosting
              /\ currentSpeed' = IF r.ran THEN r.speed ELSE currentSpeed
    /\ UNCHANGED <<player, powerups, gameRunning, mouseDown, mouse, pending,
                   pc, idx, nextOid, inputs, snapshot>>

BotNext == BotFrame

BotSpec == BotInit /\ [][BotNext]_vars


\* ------------------------------------------------------------------------
\* checkCollisions on its own (game.js 664-754): the pickup loop and the
\* snake-vs-snake loop, from states in which power-ups of every tier lie
\* within reach of one agent, of two agents, or of none, and any agent
\* may have died earlier in the frame
\* ------------------------------------------------------------------------

\* new PowerUp() draws: 35 px from the heads of both the player at Home and
\* the bot Crossing; 60 px from the head of Crossing only; far from all
Between == VAdd(Home, <<35 * Px, 0>>)
BotSide == VAdd(Home, <<130 * Px, 0>>)
PowerUpSpots == {Between, BotSide, FoodAway}

\* powerups.length when the pass starts
MaxPowerUpsLying == 2

PowerUpChoices == {NewPowerUp(s, m) : s \in PowerUpSpots, m \in Tiers}
PowerUpsLying ==
    UNION {[1..n -> PowerUpChoices] : n \in 0..MaxPowerUpsLying}

\* A large bot heading east whose head is some 1500 px east of Home, in
\* the next grid cell, and whose 25th path point, the second one the
\* collision loop samples, lies 20 px east of Home
Trailing ==
    [pos |-> VAdd(Home, <<24 * Quot(calculateWidth(20000 * Pt), 2) + 20 * Px, 0>>),
     angle |-> 0, score |-> 20000 * Pt, id |-> 3]

\* The first bot of the pass
CheckBots == {Crossing, Trailing}

CheckInit ==
    /\ \E pDead \in BOOLEAN :
          player = <<Fallen(NewSnake(1, FALSE, 0, Home, 0, 100 * Pt), pDead)>>
    /\ \E bDead \in BOOLEAN : \E b \in CheckBots :
          bots = [i \in 1..botCount |->
                    IF i = 1 THEN Fallen(NewBot(2, b), bDead)
                    ELSE NewBot(1 + i, Remote)]
    /\ foods = <<NewFood(0, 0, Pt, FoodAhead), NewFood(0, 0, Pt, FoodAway)>>
    /\ powerups \in PowerUpsLying
    /\ particles = <<>>
    /\ grid = Rebuild(Fallen(player[1], FALSE),
                      [i \in 1..botCount |-> Fallen(bots[i], FALSE)])
    /\ gameRunning = TRUE
    /\ frameCount = 1
    /\ mouseDown = FALSE
    /\ mouse = <<0, 0>>
    /\ pending = 0
    /\ pc = "pickup"
    /\ idx = 1
    /\ dt = maxDt
    /\ nextOid = botCount + 2
    /\ inputs = 0
    /\ boosting = FALSE
    /\ currentSpeed = 0
    /\ snapshot = [i \in 1..(botCount + 1) |-> Fallen(Agents[i], FALSE)]

CheckNext ==
    \/ Pickup
    \/ Collide

CheckSpec == CheckInit /\ [][CheckNext]_vars


\* ------------------------------------------------------------------------
\* Properties
\* ------------------------------------------------------------------------

\* A step in which update(dt) ran on the agent under study
UpdateRan == pc = "snake" /\ frameCount' = frameCount + 1 /\ ~Agent.dead

\* q is p with points dropped from its old end only
IsFront(q, p) == Len(q) <= Len(p) /\ q = SubSeq(p, 1, Len(q))

PathBound == \A i \in 1..Len(Agents) : Len(Agents[i].path) <= maxPathPoints

\* The update moved the head farther than the path spacing from the newest
\* stored point, which is when step 6 pushes
PushDue ==
    /\ ~Agent'.dead
    /\ \/ Agent.path = <<>>
       \/ PDistGT(Agent'.pos, Agent.path[1], getPathSpacing(Agent.width))

PathKeepsNewest ==
    UpdateRan =>
        IF PushDue
        THEN /\ Agent'.path # <<>>
             /\ Head(Agent'.path) = Agent'.pos
             /\ IsFront(Tail(Agent'.path), Agent.path)
        ELSE IsFront(Agent'.path, Agent.path)

\* C1: every agent's path holds at most maxPathPoints points, from the
\* constructor's pre-filled path on and after every update; and an update
\* that pushes the new head position leaves it at the front of the path,
\* whatever it drops it drops from the old end: the pushed point is never
\* the one dropped.
C1_PathBounded == []PathBound /\ [][PathKeepsNewest]_vars

\* C1 witness: a game-loop frame has pushed the head position onto a path
\* that kept older points
C1_Pushed ==
    /\ pc = "snake" /\ frameCount > 0 /\ dt <= maxDt
    /\ ~Agent.dead
    /\ Len(Agent.path) > 1
    /\ Agent.path[1] = Agent.pos


\* Boost is requested for the update about to run, with the score at or
\* below the floor of 50
BoostRefusable == Boosting(Agent, mouseDown) /\ Agent.score <= 50 * Pt

\* The head after a translation by speed * dt' along the new heading
Translated(speed) ==
    <<Agent.pos[1] + Quot(Cos(Agent'.angle) * (speed * dt'), Sec),
      Agent.pos[2] + Quot(Sin(Agent'.angle) * (speed * dt'), Sec)>>

BoostFloorStep ==
    (UpdateRan /\ dt' <= maxDt) =>
        /\ Agent'.score >= 0
        /\ BoostRefusable =>
              /\ Agent'.score = Agent.score
              /\ Agent'.pos = Translated(baseSpeed)
              /\ Len(foods') = Len(foods) \/ Agent'.dead

\* C2: in an update with the game loop's clamped dt (dt <= 0.05 s) the
\* score is not below zero afterwards, and when boost is requested with the
\* score at or below 50 the update moves the head at the base speed, leaves
\* the score as it was and pushes no pellet to foods.
C2_BoostFloor == [][BoostFloorStep]_vars

\* C2 witness: the latest game-loop frame had boost requested, found the
\* player's score below the floor, where an earlier boosted frame had left
\* it, and moved the player at the base speed
C2_Refused ==
    /\ pc = "snake" /\ frameCount > 0 /\ dt > 0 /\ dt <= maxDt
    /\ ~Agent.isBot /\ ~Agent.dead
    /\ boosting /\ currentSpeed = baseSpeed
    /\ Agent.score < 50 * Pt


MultiplierExpired ==
    \A i \in 1..Len(Agents) :
        Agents[i].multiplierTimer <= 0 => Agents[i].multiplier = 1

\* An update resets a running multiplier exactly when it takes the timer to
\* zero or below; otherwise it leaves the multiplier alone
MultiplierResetStep ==
    UpdateRan =>
        IF Agent.multiplier > 1 /\ Agent.multiplierTimer - dt' <= 0
        THEN Agent'.multiplier = 1
        ELSE Agent'.multiplier = Agent.multiplier

\* C3: whenever an agent's multiplierTimer is at or below zero its
\* multiplier is 1 (after construction, after every update, after a
\* power-up pickup), and an update sets a multiplier above 1 back to 1 in
\* exactly the update that takes the timer to zero or below: not while the
\* timer is still positive, and not one update later.
C3_MultiplierReset == []MultiplierExpired /\ [][MultiplierResetStep]_vars

\* C3 witness: a game-loop frame took a running timer below zero and the
\* multiplier reads 1
C3_Expired ==
    /\ pc = "snake" /\ frameCount > 0 /\ dt > 0 /\ dt <= maxDt
    /\ Agent.multiplierTimer < 0
    /\ Agent.multiplierTimer + dt > 0
    /\ Agent.multiplier = 1


\* spatialHash.retrieve(rect) as the set of objects returned
Retrieved(r) ==
    LET found == Retrieve(grid, r.x, r.y, r.w, r.h)
    IN  {found[k] : k \in 1..Len(found)}

\* The cell of a position, floor(pos / cellSize) on each axis, lies inside
\* the rectangle r, or apart from it
CellWithin(pos, r) ==
    /\ r.x <= (pos[1] \div cellSize) * cellSize
    /\ ((pos[1] \div cellSize) + 1) * cellSize <= r.x + r.w
    /\ r.y <= (pos[2] \div cellSize) * cellSize
    /\ ((pos[2] \div cellSize) + 1) * cellSize <= r.y + r.h
CellApart(pos, r) ==
    \/ ((pos[1] \div cellSize) + 1) * cellSize <= r.x
    \/ r.x + r.w < (pos[1] \div cellSize) * cellSize
    \/ ((pos[2] \div cellSize) + 1) * cellSize <= r.y
    \/ r.y + r.h < (pos[2] \div cellSize) * cellSize

\* C4: retrieve(rect) returns every object inserted since the last clear()
\* whose cell lies inside rect, for negative coordinates as well, and returns
\* nothing when rect is apart from the cell of every inserted object.
C4_RetrieveComplete ==
    pc = "hash" =>
        \A r \in Rects :
            /\ \A j \in 1..Len(bots) :
                   CellWithin(bots[j].pos, r) => bots[j].oid \in Retrieved(r)
            /\ (\A j \in 1..Len(bots) : CellApart(bots[j].pos, r))
                   => Retrieved(r) = {}

\* C4 witness: two objects are in the grid, one at negative coordinates in a
\* cell that a query rectangle contains and returns, the other apart from a
\* rectangle that intersects an occupied cell
C4_NegativeCellFound ==
    /\ pc = "hash" /\ Len(bots) = 2
    /\ bots[1].pos[1] < 0 /\ bots[1].pos[2] < 0
    /\ \E r \in Rects :
          /\ CellWithin(bots[1].pos, r)
          /\ bots[1].oid \in Retrieved(r)
          /\ CellApart(bots[2].pos, r)
          /\ bots[2].oid \notin Retrieved(r)


\* The agent whose update() the running frame calls next
Updating == pc = "update" /\ ~Agents[idx].dead

\* The update leaves the head outside the map: it marks the agent dead and
\* leaves path, width and targetWidth as they were before the tick
BoundaryDeathStep ==
    (Updating /\ MagGT(Agents'[idx].pos, mapSize)) =>
        /\ Agents'[idx].dead
        /\ Agents'[idx].path = Agents[idx].path
        /\ Agents'[idx].width = Agents[idx].width
        /\ Agents'[idx].targetWidth = Agents[idx].targetWidth

\* No later step of the tick (nor of any tick) moves an agent that died
\* outside the map
OutsideStaysPut ==
    \A i \in 1..Len(Agents) : \A j \in 1..Len(Agents') :
        (/\ Agents[i].dead
         /\ MagGT(Agents[i].pos, mapSize)
         /\ Agents'[j].oid = Agents[i].oid)
        => /\ Agents'[j].pos = Agents[i].pos
           /\ Agents'[j].path = Agents[i].path
           /\ Agents'[j].width = Agents[i].width
           /\ Agents'[j].targetWidth = Agents[i].targetWidth

\* C5: an update whose translation takes the head farther from the origin
\* than mapSize marks the agent dead in that update and skips path
\* management and width smoothing, so path, width and targetWidth keep
\* their pre-tick values; and nothing moves the agent again afterwards.
C5_BoundaryDeath == [][BoundaryDeathStep /\ OutsideStaysPut]_vars

\* C5 witness: the player's update has just taken it across the boundary;
\* it is dead, with the seven path points of its spawn
C5_DiedOutside ==
    /\ pc = "update" /\ idx = 2
    /\ player[1].dead
    /\ MagGT(player[1].pos, mapSize)
    /\ Len(player[1].path) = 7
    /\ player[1].path[1] # player[1].pos


\* The neighbours whose sampled body the head of s1 touches
BodiesHit(s1) ==
    {j \in 1..Len(Agents) :
        /\ \E h \in 1..Len(Nearby(s1, grid)) : Nearby(s1, grid)[h] = Agents[j].oid
        /\ BodyHit(s1, Agents[j])}

\* The check of s1 = allSnakes[idx]: a live s1 that touches a body is marked
\* dead, with one burst of particles however many bodies it touches; every
\* other agent, the touched ones included, is left exactly as it was
HeadOnBodyStep ==
    pc = "collide" =>
        /\ \A j \in 1..Len(Agents) : j # idx => Agents'[j] = Agents[j]
        /\ IF ~Agents[idx].dead /\ BodiesHit(Agents[idx]) # {}
           THEN /\ Agents'[idx] = [Agents[idx] EXCEPT !.dead = TRUE]
                /\ ParticleCount(particles') = ParticleCount(particles) + burstSize
           ELSE /\ Agents'[idx] = Agents[idx]
                /\ particles' = particles

\* C6: in the snake-vs-snake pass, when the head of a live s1 is closer than
\* head radius + body radius to a sampled path point of another live agent
\* s2, the check marks s1 dead and nobody else: dead, score and path of s2
\* (and of every other agent) are unchanged, and s1 dies once, whatever the
\* number of bodies in reach.
C6_OnlyHeadDies == [][HeadOnBodyStep]_vars

\* C6 witness: the player's check has just run with its head on the bodies
\* of both bots; the player is dead and both bots are alive
C6_HeadOnTwoBodies ==
    /\ pc = "collide" /\ idx = 2
    /\ player[1].dead
    /\ ~MagGT(player[1].pos, mapSize)
    /\ Len(bots) = 2
    /\ \A j \in 1..2 : ~bots[j].dead /\ BodyHit(player[1], bots[j])


\* The food items the agent s picks up: those its head reaches
Eaten(s) == {i \in 1..Len(foods) : ~s.dead /\ FoodHit(s, foods[i])}

\* The sum of the values of the food items with index in S
RECURSIVE ValueOf(_)
ValueOf(S) ==
    IF S = {} THEN 0
    ELSE LET i == CHOOSE k \in S : TRUE
         IN  foods[i].value + ValueOf(S \ {i})

\* The pickup step of s = allSnakes[idx]: s is credited value x multiplier
\* x 10 for each item it reaches, with the multiplier it has on entering the
\* step; exactly those items leave foods; nobody else's score moves
FoodCreditStep ==
    pc = "pickup" =>
        /\ Agents'[idx].score =
              Agents[idx].score
                + ValueOf(Eaten(Agents[idx])) * Agents[idx].multiplier * 10
        /\ foods' = [k \in 1..(Len(foods) - Cardinality(Eaten(Agents[idx]))) |->
                        foods[CHOOSE i \in 1..Len(foods) \ Eaten(Agents[idx]) :
                                Cardinality({h \in 1..i : h \notin Eaten(Agents[idx])}) = k]]
        /\ \A j \in 1..Len(Agents) :
               j # idx => Agents'[j].score = Agents[j].score

\* C7: a food item picked up in checkCollisions adds value x multiplier x 10
\* to the score of the agent that picks it up, with the multiplier that
\* agent has at that moment, and leaves foods in the same step, so that it
\* is credited once and to one agent only.
C7_FoodCredit == [][FoodCreditStep]_vars

\* C7 witness: the player, holding a x5 multiplier from an earlier frame,
\* has just picked up a food item of value 1: with the 10 of a first item
\* picked up at multiplier 1 its score is 100 + 10 + 50
C7_FiftyAtTimesFive ==
    /\ pc = "pickup" /\ idx = 2
    /\ ~player[1].dead
    /\ player[1].multiplier = 5
    /\ player[1].multiplierTimer < multiplierDuration
    /\ player[1].score = 160 * Pt
    /\ Len(foods) = foodCount - 1


\* Scores from below the floor of 10 up to two million points
SampleScores ==
    {0, 1 * Pt, 5 * Pt, 10 * Pt, 11 * Pt, 100 * Pt, 101 * Pt, 2512 * Pt,
     100000 * Pt, 1000000 * Pt, 2000000 * Pt}

\* C8: calculateWidth is a non-decreasing function of the score, on the
\* sample scores and on the score of the agent, is never below its value at
\* score 10 nor above 500, and gives 65 at score 100.
C8_WidthLaw ==
    pc = "snake" =>
        LET S == SampleScores \cup {Agent.score}
            W == [s \in S |-> calculateWidth(s)]
        IN  /\ \A s1 \in S : \A s2 \in S : s1 < s2 => W[s1] <= W[s2]
            /\ \A s \in S : W[10 * Pt] <= W[s] /\ W[s] <= 500 * Px
            /\ W[100 * Pt] = 65 * Px

\* C8 witness: the player has picked up food and an update has recomputed
\* its target width from the higher score: it is above the 65 px of score 100
C8_WiderTarget ==
    /\ pc = "snake" /\ frameCount > 0
    /\ ~Agent.isBot /\ ~Agent.dead
    /\ Agent.score > 100 * Pt
    /\ Agent.targetWidth = calculateWidth(Agent.score)
    /\ Agent.targetWidth > 65 * Px


\* An update with a clamped dt that the agent completes alive sets
\* targetWidth from the score and leaves the width between the old width and
\* that target
WidthSmoothingStep ==
    (UpdateRan /\ dt' <= maxDt /\ ~Agent'.dead) =>
        /\ Agent'.targetWidth = calculateWidth(Agent'.score)
        /\ Min(Agent.width, Agent'.targetWidth) <= Agent'.width
        /\ Agent'.width <= Max(Agent.width, Agent'.targetWidth)

\* C9: in every update with dt in [0, 0.05] that a live agent completes, the
\* new width lies between the previous width and the target width derived
\* from the score, both included: the width moves toward the target, not
\* past it and not away from it.
C9_NoOvershoot == [][WidthSmoothingStep]_vars

\* C9 witness: after food has raised the player's score, a game-loop frame
\* has moved its width from 65 px part of the way to the new target
C9_PartWay ==
    /\ pc = "snake" /\ frameCount > 0 /\ dt > 0 /\ dt <= maxDt
    /\ ~Agent.isBot /\ ~Agent.dead
    /\ ~boosting
    /\ Agent.score > 100 * Pt
    /\ Agent.width > 65 * Px
    /\ Agent.width < Agent.targetWidth


\* Boost is requested for the update about to run and the score is above 50
BoostDue == Boosting(Agent, mouseDown) /\ Agent.score > 50 * Pt

\* A bot wider than 100 px, which the code slows down by a tenth
WideBot == Agent.isBot /\ Agent.width > 100 * Px

\* The scenario: at the origin, heading 0, no turning input, no boost, and
\* an update of a whole second
AtRest ==
    /\ Agent.pos = Origin /\ Agent.angle = 0 /\ Agent.targetAngle = 0
    /\ ~Boosting(Agent, mouseDown)
    /\ dt' = 1 * Sec

\* The speed law as the claim words it: 900 when boosting, else 450
SpeedAsClaimedStep ==
    UpdateRan =>
        Agent'.pos = Translated(IF BoostDue THEN boostSpeed ELSE baseSpeed)

\* C10 as worded: every update translates the head by speed x dt along the
\* heading left by the turn step, the speed being 900 iff boost is requested
\* with score > 50 and 450 otherwise.  A wide bot refutes it.
C10_SpeedAsClaimed == [][SpeedAsClaimedStep]_vars

SpeedStep ==
    UpdateRan =>
        /\ Agent'.pos = Translated(IF BoostDue THEN boostSpeed
                                   ELSE IF WideBot THEN 405
                                   ELSE baseSpeed)
        /\ (AtRest /\ ~WideBot) => Agent'.pos = <<450 * Px, 0>>

\* C10, amended: every update translates the head by speed x dt along the
\* heading left by the turn step; the speed is 900 iff boost is requested
\* with score > 50, otherwise 450, or 405 for a bot wider than 100 px.  A
\* player, or a bot no wider than 100 px, at the origin with heading 0, no
\* turning input, no boost and dt = 1 s ends at (450, 0).
C10_SpeedSelected == [][SpeedStep]_vars

\* C10 witness: a bot of width 101 px, at the origin with heading 0 and not
\* boosting, was updated with dt = 1 s and stands at (405, 0)
C10_WideBotMoved ==
    /\ pc = "snake" /\ frameCount = 1 /\ dt = 1 * Sec
    /\ Agent.isBot /\ ~Agent.dead
    /\ ~boosting /\ currentSpeed = 405
    /\ Agent.angle = 0
    /\ Agent.pos = <<405 * Px, 0>>


\* Between frames a dead player means gameOver() has been called
GameOverRaised ==
    (pc = "idle" /\ player # <<>> /\ player[1].dead) => ~gameRunning

\* A frame callback that has started stands at a position its next step is
\* defined for, whether or not the player is dead: the loops over the
\* population are at an agent that exists
FrameGoesOn ==
    /\ pc = "update" => (player # <<>> /\ idx \in 1..(Len(bots) + 1))
    /\ pc \in {"pickup", "collide"} => idx \in 1..Len(Agents)
    /\ pc \in {"particles", "finish"} => player # <<>>

\* The phases of update() in the order the code runs them
PhaseOrder ==
    { <<"update", "update">>, <<"update", "particles">>,
      <<"particles", "pickup">>, <<"pickup", "pickup">>,
      <<"pickup", "collide">>, <<"collide", "collide">>,
      <<"collide", "finish">>, <<"finish", "idle">> }

\* The player goes from alive to dead in this step
PlayerDies ==
    /\ player # <<>> /\ ~player[1].dead
    /\ player' # <<>> /\ player'[1].oid = player[1].oid /\ player'[1].dead

\* The player dies only inside a frame (in its update or in its collision
\* check); with a dead player the frame goes through the remaining phases in
\* order, and its last step calls gameOver(), does cleanup and spawning and
\* schedules the next callback
DeadPlayerFrameStep ==
    /\ PlayerDies => (pc \in {"update", "collide"} /\ pc' # "idle")
    /\ (pc # "idle" /\ player[1].dead) =>
          /\ <<pc, pc'>> \in PhaseOrder
          /\ pc = "finish" =>
                /\ ~gameRunning'
                /\ Len(bots') = botCount
                /\ \A j \in 1..Len(bots') : ~bots'[j].dead
                /\ Len(foods') >= foodCount
                /\ pending' = pending + 1

\* A frame's update() starts only with a live player, and a dead player is
\* touched by nothing but the reset that replaces it with a new live one
NoFrameWhileDeadStep ==
    /\ (pc = "idle" /\ pc' = "update") => (gameRunning /\ ~player[1].dead)
    /\ (player # <<>> /\ player[1].dead /\ player' # player) =>
          /\ pc = "idle" /\ pc' = "idle"
          /\ ~player'[1].dead
          /\ player'[1].oid # player[1].oid
          /\ gameRunning'

\* C11: when the player goes from alive to dead during a frame (boundary
\* death in its update, or a head-vs-body hit), gameOver() is called in that
\* same frame, the frame still runs through all its remaining phases, and no
\* later frame runs update() until a reset has put a new live player in place.
C11_GameOverInTick ==
    /\ []GameOverRaised
    /\ []FrameGoesOn
    /\ [][DeadPlayerFrameStep /\ NoFrameWhileDeadStep]_vars

\* C11 witness: the player died at the boundary in its update; its frame has
\* run to the end: the game is over, the bots are back at full count and the
\* next callback is scheduled
C11_OverAfterBoundaryDeath ==
    /\ pc = "idle" /\ frameCount > 0
    /\ player[1].dead /\ MagGT(player[1].pos, mapSize)
    /\ ~gameRunning
    /\ pending > 0
    /\ Len(bots) = botCount


\* The counts the collections have between frames, once a game has started
PopulationRestored ==
    (pc = "idle" /\ player # <<>>) =>
        /\ Len(bots) = botCount
        /\ \A j \in 1..Len(bots) : ~bots[j].dead
        /\ Len(foods) >= foodCount

\* powerups.length <= 50
PowerUpsCapped == Len(powerups) <= maxPowerups

\* The cleanup sweep removes the dead bots and nothing else: the live bots
\* stay, in their order, at the front of the collection, and what follows
\* them is newly constructed
CleanupStep ==
    pc = "finish" =>
        /\ SubSeq(bots', 1, Len(SelectAlive(bots))) = SelectAlive(bots)
        /\ \A j \in (Len(SelectAlive(bots)) + 1)..Len(bots') :
               bots'[j].oid >= nextOid
        /\ SubSeq(foods', 1, Len(foods)) = foods
        /\ SubSeq(powerups', 1, Len(powerups)) = powerups

\* C12: at the end of every frame, after cleanup and spawning, and after a
\* reset, bots holds no dead agent and exactly botCount members and foods
\* holds at least foodCount members; powerups never holds more than 50.
C12_PopulationRestored ==
    /\ []PopulationRestored
    /\ []PowerUpsCapped
    /\ [][CleanupStep]_vars

\* C12 witness: a frame that found both bots dead, no food left and the
\* power-ups at their cap has ended: two new bots, food refilled, still 50
\* power-ups
C12_RespawnedAtCap ==
    /\ pc = "idle" /\ frameCount > 0
    /\ Len(powerups) = maxPowerups
    /\ Len(bots) = botCount
    /\ \A j \in 1..Len(bots) : bots[j].oid > botCount + 1 /\ ~bots[j].dead
    /\ Len(foods) = foodCount
    /\ \A i \in 1..Len(foods) : foods[i].pos = FoodAhead


\* The entries of a grid: <<cell, index, object>>
GridEntries(g) ==
    UNION {{<<c, k, g[c][k]>> : k \in 1..Len(g[c])} : c \in DOMAIN g}

\* The step that starts a frame's update()
FrameStarts == pc = "idle" /\ pc' = "update"

\* What the rebuild leaves in the grid: one entry for the player and one for
\* each bot that is alive, under the cell of its position, and nothing else;
\* each of them is alive when it is inserted
RebuildStep ==
    FrameStarts =>
        /\ ~player[1].dead
        /\ {e[3] : e \in GridEntries(grid')}
              = {player[1].oid}
                  \cup {bots[j].oid : j \in {h \in 1..Len(bots) : ~bots[h].dead}}
        /\ \A i \in 1..Len(Agents) :
               ~Agents[i].dead =>
                   /\ Cardinality({e \in GridEntries(grid') :
                                      e[3] = Agents[i].oid}) = 1
                   /\ \E e \in GridEntries(grid') :
                          e[1] = CellOf(Agents[i].pos) /\ e[3] = Agents[i].oid

\* Only the start of a frame changes the grid
GridFrozenStep == (grid' # grid) => FrameStarts

\* C13: the grid is cleared and repopulated once per frame, at the start of
\* update() before any agent update: after it the grid holds exactly one
\* entry for the player (inserted without a dead check, and alive) and for
\* each live bot; no other step of the frame, and no handler between frames,
\* changes the grid.
C13_GridRebuiltOnce == [][RebuildStep /\ GridFrozenStep]_vars

\* C13 witness: in the second frame of a game the player has left the map
\* and died; the collision pass runs with the grid as built at the start of
\* the frame, the player still filed under the cell it started the frame in
C13_StaleEntry ==
    /\ pc = "collide" /\ frameCount = 2
    /\ player[1].dead
    /\ CellOf(player[1].pos) \notin DOMAIN grid
    /\ \E e \in GridEntries(grid) : e[3] = player[1].oid
    /\ Cardinality(GridEntries(grid)) = 1 + botCount


\* The agent with identity oid as it was when the frame's update() began
PreTickOf(oid) ==
    CHOOSE s \in {snapshot[i] : i \in 1..Len(snapshot)} : s.oid = oid

\* The step in which bot idx - 1 runs its scan as far as the neighbour loop
BotScans ==
    /\ pc = "update" /\ idx > 1
    /\ ~bots[idx - 1].dead
    /\ ShouldScan(bots[idx - 1], frameCount)
    /\ ~BoundaryDanger(bots[idx - 1])

\* What the grid query of the scanning bot s returns from the grid g
ScanNearbyIn(s, g) ==
    Retrieve(g, s.pos[1] - LookDist(s), s.pos[2] - LookDist(s),
             2 * LookDist(s), 2 * LookDist(s))
ScanNearby(s) == ScanNearbyIn(s, grid)

\* The neighbours the loop gets to: those before the `break` on danger
Examined(s) ==
    {j \in 1..Len(ScanNearby(s)) :
        /\ ScanNearby(s)[j] # s.oid
        /\ \A h \in 1..(j - 1) : ~SenseHit(s, SnakeOf(ScanNearby(s)[h]))}

\* The path indices of o the sampling loop of s reads: up to the first hit
PointsRead(s, o) ==
    LET S == Samples(o.path, Max(5, Len(o.path) \div 10))
        H == {i \in S : PDistLT(CheckPos(s), o.path[i], s.width + o.width)}
    IN  {i \in S : \A h \in H : i <= h}

\* What s reads of o (other.dead, other.path.length, the sampled points,
\* other.width) is what o held when the frame began
ReadsPreTick(s, o) ==
    LET pre == PreTickOf(o.oid)
    IN  /\ o.dead = pre.dead
        /\ ~o.dead =>
              /\ Len(o.path) = Len(pre.path)
              /\ \A i \in PointsRead(s, o) : o.path[i] = pre.path[i]
              /\ o.path # <<>> => o.width = pre.width

ScanReadsPreTickStep ==
    BotScans =>
        \A j \in Examined(bots[idx - 1]) :
            ReadsPreTick(bots[idx - 1], SnakeOf(ScanNearby(bots[idx - 1])[j]))

\* C14: every value a bot's scan reads about another agent (dead flag, path
\* points, width) is the value that agent had when the frame began, whether
\* or not that agent's update has run before the bot's in this frame.
C14_ScanReadsPreTick == [][ScanReadsPreTickStep]_vars


\* The frame is inside a pass over the population: the agent updates, the
\* pickup loop or the snake-vs-snake loop
InPopulationPass == pc \in {"update", "pickup", "collide"}

NoResizeInPassStep ==
    InPopulationPass =>
        /\ Len(bots') = Len(bots)
        /\ Len(foods') = Len(foods)
        /\ Len(powerups') = Len(powerups)
        /\ ParticleCount(particles') = ParticleCount(particles)

RECURSIVE Without(_, _)
Without(q, S) ==
    IF q = <<>> THEN <<>>
    ELSE Without(SubSeq(q, 1, Len(q) - 1), S)
           \o (IF Len(q) \in S THEN <<>> ELSE <<q[Len(q)]>>)

\* q is p with items added at its end
Extends(q, p) == Len(p) <= Len(q) /\ SubSeq(q, 1, Len(p)) = p

\* The power-ups the agent s picks up: those its head reaches
Taken(s) == {i \in 1..Len(powerups) : ~s.dead /\ PowerUpHit(s, powerups[i])}

\* What the passes of a frame do to the collections: bots keeps its size;
\* an agent update and a collision check only add at the end of foods and
\* particles; a pickup step removes from foods and powerups exactly the
\* items the agent reaches, in that step
ResizeInPassStep ==
    /\ (InPopulationPass \/ pc = "particles") => Len(bots') = Len(bots)
    /\ pc \in {"update", "collide"} =>
          /\ Extends(foods', foods)
          /\ Extends(particles', particles)
          /\ powerups' = powerups
          /\ (Len(foods') > Len(foods) \/ particles' # particles) =>
                \E i \in 1..Len(Agents) :
                    \/ Agents'[i].dead /\ ~Agents[i].dead
                    \/ Agents'[i].score < Agents[i].score
    /\ pc = "pickup" =>
          /\ foods' = Without(foods, Eaten(Agents[idx]))
          /\ powerups' = Without(powerups, Taken(Agents[idx]))
          /\ particles' = particles

Oids(as) == [i \in 1..Len(as) |-> as[i].oid]

\* From the start of a frame's agent updates to the end of its collision
\* pass
BeforeCleanup == pc \in {"update", "particles", "pickup", "collide"}

\* Up to the cleanup sweep the population is the same objects in the same
\* places, and an agent that dies stays where it is with its flag set
MarkedInPlaceStep ==
    BeforeCleanup =>
        /\ Len(player') = 1
        /\ Oids(Agents') = Oids(Agents)
        /\ \A i \in 1..Len(Agents) :
               Agents[i].dead =>
                   (Agents'[i].dead /\ Agents'[i].pos = Agents[i].pos)

\* The sweep after checkCollisions takes out the dead bots, all of them and
\* only them, and keeps the player, dead or not
CleanupSweepStep ==
    pc = "finish" =>
        /\ player' = player
        /\ \A j \in 1..Len(bots) :
               bots[j].dead <=> (\A h \in 1..Len(bots') : bots'[h].oid # bots[j].oid)
        /\ Oids(SubSeq(bots', 1, Len(SelectAlive(bots)))) = Oids(SelectAlive(bots))

\* Once a game has started there is always a player object
PlayerStays == (player # <<>>) => (Len(player') = 1)

BotUpdated == pc = "bot" /\ frameCount' = frameCount + 1 /\ ~bots[1].dead

\* Frames since the scan of the bot under study last fell due
SinceScan == (frameCount + bots[1].id) % 5

\* The steering state Bot.update keeps between scans
Steering(s) == <<s.targetAngle, s.wantBoost, s.changeDirTimer, s.boostCooldown>>

\* The scan falls due on one frame in five; off those frames the steering
\* state is left as it was, on them the scan shows (the wander timer moves
\* or danger switches the boost on); on all of them the kinematics run: the
\* head moves by currentSpeed x dt along the heading
ThrottleStep ==
    BotUpdated =>
        /\ SinceScan' = (SinceScan + 1) % 5
        /\ SinceScan' = 0 <=> ShouldScan(bots[1], frameCount')
        /\ SinceScan' # 0 => Steering(bots'[1]) = Steering(bots[1])
        /\ SinceScan' = 0 =>
              \/ bots'[1].changeDirTimer # bots[1].changeDirTimer
              \/ bots'[1].wantBoost
        /\ bots'[1].pos # bots[1].pos
        /\ bots'[1].pos =
              <<bots[1].pos[1]
                  + Quot(Cos(bots'[1].angle) * (currentSpeed' * dt'), Sec),
                bots[1].pos[2]
                  + Quot(Sin(bots'[1].angle) * (currentSpeed' * dt'), Sec)>>

\* C17: a live bot re-evaluates its steering on the frames where
\* (frameCount + id) mod 5 = 0, one frame in every five consecutive ones;
\* on every other frame its update leaves targetAngle, wantBoost,
\* changeDirTimer and boostCooldown unchanged; the kinematics of
\* Snake.update run on every frame.
C17_ScanEveryFifth == [][ThrottleStep]_vars

\* C17 witness: a wandering bot with id 99999 is six frames into its run;
\* it scanned in frame 1, which rearmed its wander timer to 2 s, moved
\* through four frames without scanning, and scanned again in frame 6, which
\* took 5 x dt off the timer
C17_SecondScan ==
    /\ pc = "bot" /\ frameCount = 6 /\ dt = maxDt
    /\ bots[1].id = 99999 /\ ~bots[1].dead
    /\ bots[1].changeDirTimer = 2 * Sec - 5 * maxDt
    /\ bots[1].pos[1] < -3500 * Px - 50 * Px


\* The step in which the live bot under study runs its scan
BotScanned == BotUpdated /\ ShouldScan(bots[1], frameCount')

\* The heading a (milli-radians) points from the position pos at the origin,
\* to within 2 % of a radian: the unit vector of a and the vector -pos have
\* a positive dot product and a cross product below 2 % of |pos|
PointsAtOrigin(a, pos) ==
    LET x == -(pos[1] \div Px)
        y == -(pos[2] \div Px)
    IN  /\ Cos(a) * x + Sin(a) * y > 0
        /\ Abs(Cos(a) * y - Sin(a) * x) <= 20 * (Abs(x) + Abs(y))

\* A scan with the probe past the boundary margin leaves the desired
\* heading pointing from the head at the origin, whatever else is near;
\* a scan that flags danger of either kind leaves wantBoost on
BoundaryScanStep ==
    BotScanned =>
        /\ MagGT(CheckPos(bots[1]), mapSize - 200 * Px) =>
              /\ bots'[1].targetAngle = Atan2(-bots[1].pos[2], -bots[1].pos[1])
              /\ PointsAtOrigin(bots'[1].targetAngle, bots[1].pos)
        /\ (BoundaryDanger(bots[1]) \/ CollisionDanger(bots[1], grid')) =>
              bots'[1].wantBoost

\* C18: on a scan with the forward probe farther from the origin than
\* mapSize - 200, the desired heading after the scan is the direction from
\* the head to the origin, unaltered by the collision dodge and the wander
\* nudge; and after every scan that flags danger wantBoost is true.
C18_BoundaryOverrides == [][BoundaryScanStep]_vars

\* C18 witness: the bot at (99400, 500) heading east has scanned in frame 1
\* with its probe past the margin and 42.5 px from the body of the agent
\* spawned at Edge: it heads for the origin (-3137 mrad) and boosts
C18_TurnedInward ==
    /\ pc = "bot" /\ frameCount = 1
    /\ player[1].pos = Edge /\ ~player[1].dead
    /\ bots[1].targetAngle = -3137
    /\ bots[1].wantBoost /\ boosting /\ currentSpeed = boostSpeed
    /\ bots[1].pos[1] > 99400 * Px


\* The scan of the bot under study gets as far as the neighbour loop
NeighbourScan ==
    BotScanned /\ ~MagGT(CheckPos(bots[1]), mapSize - 200 * Px)

\* The scan flagged danger in the neighbour loop: one quarter turn of the
\* desired heading, and the boost switched on
Dodged ==
    /\ bots'[1].targetAngle = bots[1].targetAngle + HalfPI
    /\ bots'[1].wantBoost

\* The other live agents the grid query around the head of s returns, as
\* indices into [player, ...bots]
Sensed(s, g) ==
    {k \in 1..Len(Agents) :
        /\ Agents[k].oid # s.oid /\ ~Agents[k].dead
        /\ \E j \in 1..Len(ScanNearbyIn(s, g)) :
               ScanNearbyIn(s, g)[j] = Agents[k].oid}

\* Some point of o's path at a multiple of stride (from the newest point)
\* is closer to the probe of s than reach
SampleWithin(s, o, stride, reach) ==
    \E i \in 1..Len(o.path) :
        /\ (i - 1) % stride = 0
        /\ PDistLT(CheckPos(s), o.path[i], reach)

\* A stride proportional to the width: the factor the collision pass uses
WidthStride(o) == Max(2, o.width \div (5 * Px))

ScanAsClaimedStep ==
    NeighbourScan =>
        (Dodged <=>
            \E k \in Sensed(bots[1], grid') :
                SampleWithin(bots[1], Agents[k], WidthStride(Agents[k]),
                             Quot(bots[1].width, 2) + Quot(Agents[k].width, 2)))

\* C19 as worded: on a scan without boundary danger the bot flags danger
\* (one quarter turn) exactly when, sampling the other live agents of the
\* grid query at a stride proportional to their width, it finds a point
\* closer to the probe than the sum of the two half widths.  A body 100 px
\* from the probe, with no path point at all within 65 px, refutes it
\* whatever the factor of the stride.
C19_HalfWidthsAtWidthStride == [][ScanAsClaimedStep]_vars

\* The stride and the reach the code has
ScanStep ==
    NeighbourScan =>
        /\ Dodged <=>
              \E k \in Sensed(bots[1], grid') :
                  SampleWithin(bots[1], Agents[k],
                               Max(5, Len(Agents[k].path) \div 10),
                               bots[1].width + Agents[k].width)
        /\ ~Dodged =>
              /\ Abs(bots'[1].targetAngle - bots[1].targetAngle) <= 1000
              /\ bots'[1].changeDirTimer # bots[1].changeDirTimer

\* C19, amended: on a scan without boundary danger the bot samples each
\* other live agent returned by the grid query around its head at a stride
\* of max(5, floor(path.length / 10)) points and flags danger, turning its
\* desired heading by one quarter turn, once per scan however many points
\* and agents are in reach, on the first sampled point closer to the probe
\* than the sum of the two widths; with no such point it wanders.
C19_WidthsAtLengthStride == [][ScanStep]_vars

\* C19 witness: the bot probing 100 px from the sixth path point of the only
\* other agent has scanned in frame 1 and dodged: its desired heading went
\* from pi/2 to pi and it boosts
C19_DodgedAtHundred ==
    /\ pc = "bot" /\ frameCount = 1
    /\ Len(bots) = 1
    /\ player[1].pos = Home
    /\ bots[1].id = 99999
    /\ bots[1].targetAngle = PI
    /\ bots[1].wantBoost

\* ------------------------------------------------------------------------
\* C20: the turn step of Snake.update never overshoots.  With diff the
\* shortest signed difference between the desired and the current heading
\* and turnAmount the tick's turn amount, the heading after the update is
\* the desired heading when |diff| < turnAmount and has otherwise moved by
\* exactly turnAmount towards it; what remains of the difference is never
\* larger than before and never of the opposite sign.
\* ------------------------------------------------------------------------
TurnStep ==
    UpdateRan =>
        LET s == Agent
            r == Agent'
            diff == AngleDiff(s.targetAngle, s.angle)
            turnAmount == TurnAmount(s.width, dt')
            left == AngleDiff(r.targetAngle, r.angle)
        IN  /\ r.targetAngle = s.targetAngle
            /\ IF Abs(diff) < turnAmount
               THEN r.angle = s.targetAngle
               ELSE r.angle = s.angle + Sign(diff) * turnAmount
            /\ Abs(left) <= Abs(diff)
            /\ left * diff >= 0

C20_TurnNeverOvershoots == [][TurnStep]_vars

\* Two frames after the target moved a quarter turn away, the heading is
\* part of the way there
C20_PartWayRound ==
    /\ pc = "snake" /\ frameCount >= 2
    /\ Agent.targetAngle = HalfPI
    /\ Agent.angle > TurnAmount(Agent.width, maxDt)
    /\ Agent.angle < HalfPI

\* ------------------------------------------------------------------------
\* C21: in the pickup loop of checkCollisions a live agent whose head is
\* within width / 2 + 40 of a power-up gets the power-up's tier as its
\* multiplier and a multiplierTimer of 10, and the power-up leaves the
\* array in that same step, so that no later agent of the pass can take
\* it; an agent that is dead when the pass reaches it takes nothing.
\* ------------------------------------------------------------------------
PickupStep == pc = "pickup"

\* The indices of the power-ups the head of s is within reach of
Reached(s) == {i \in 1..Len(powerups) : PowerUpHit(s, powerups[i])}

\* The reached power-up the backward loop handles last
LastTaken(s) == powerups[CHOOSE i \in Reached(s) : \A j \in Reached(s) : i <= j]

OthersUntouched ==
    \A k \in 1..Len(Agents) : k # idx => Agents'[k] = Agents[k]

PowerUpPickupStep ==
    PickupStep =>
        LET s == Agents[idx]
            r == Agents'[idx]
        IN  /\ Len(Agents') = Len(Agents)
            /\ OthersUntouched
            /\ s.dead => r = s /\ powerups' = powerups /\ foods' = foods
            /\ ~s.dead /\ Reached(s) = {} =>
                  /\ powerups' = powerups
                  /\ r.multiplier = s.multiplier
                  /\ r.multiplierTimer = s.multiplierTimer
            /\ ~s.dead /\ Reached(s) # {} =>
                  /\ powerups' = Without(powerups, Reached(s))
                  /\ r.multiplier = LastTaken(s).multiplier
                  /\ r.multiplier \in Tiers
                  /\ r.multiplierTimer = 10 * Sec

C21_PowerUpTakenOnce == [][PowerUpPickupStep]_vars

\* The player took the tier-10 power-up lying between its head and the
\* head of a live bot, which was in reach of both; the bot got nothing
C21_TakenByFirst ==
    /\ pc = "collide"
    /\ player[1].multiplier = 10
    /\ player[1].multiplierTimer = multiplierDuration
    /\ ~bots[1].dead /\ bots[1].multiplier = 1
    /\ PDistLT(bots[1].pos, Between, Quot(bots[1].width, 2) + powerUpRadius)
    /\ powerups = <<>>

\* ------------------------------------------------------------------------
\* C22: an agent that is marked dead is frozen.  No later step, of the
\* same tick or of a later one, changes its score, position, heading,
\* path, width or multiplier, and it stays dead: its update returns at
\* once, the pickup loop and the collision loop skip it.
\* ------------------------------------------------------------------------
Frozen(s, r) ==
    /\ r.dead
    /\ r.score = s.score
    /\ r.pos = s.pos
    /\ r.angle = s.angle
    /\ r.path = s.path
    /\ r.width = s.width
    /\ r.multiplier = s.multiplier

DeadFrozenStep ==
    \A i \in 1..Len(Agents) : \A j \in 1..Len(Agents') :
        (Agents[i].dead /\ Agents'[j].oid = Agents[i].oid)
            => Frozen(Agents[i], Agents'[j])

C22_DeadStaysFrozen == [][DeadFrozenStep]_vars

\* The pickup loop has gone past the dead player, whose head is within
\* reach of food that still lies there
C22_DeadLeavesFood ==
    /\ pc = "collide"
    /\ player[1].dead
    /\ \E k \in 1..Len(foods) : FoodHit(player[1], foods[k])

\* ------------------------------------------------------------------------
\* C23: death effects are triggered exactly once per agent, in the step
\* that takes it from alive to dead: one burst of 50 particles at the
\* position it died at and one food item of value max(1, floor(width / 5))
\* for every sampled point of its path.  No other step adds a burst or
\* dropped food; in particular the collision pass goes past an agent that
\* died at the boundary in its update without killing it again.
\* ------------------------------------------------------------------------

\* The agents the step takes from alive to dead
Dying ==
    {i \in 1..Len(Agents) :
        /\ ~Agents[i].dead
        /\ \E j \in 1..Len(Agents') :
              Agents'[j].oid = Agents[i].oid /\ Agents'[j].dead}

\* The food a death left: ambient food is worth 1 and a boost pellet 0.5,
\* food dropped by a body of width 40 or more is worth 8 or more
Dropped(fs) == SelectSeq(fs, LAMBDA f : f.value > Pt)

\* The food dropFood(s) pushes, up to the scatter
DropOf(s) ==
    [k \in 1..Cardinality(Samples(s.path, Max(1, s.width \div (10 * Px)))) |->
        Max(1, s.width \div (5 * Px)) * Pt]

Values(fs) == [k \in 1..Len(fs) |-> fs[k].value]

DeathEffectsStep ==
    /\ Cardinality(Dying) <= 1
    /\ Dying = {} =>
          /\ ParticleCount(particles') <= ParticleCount(particles)
          /\ Len(Dropped(foods')) <= Len(Dropped(foods))
    /\ \A i \in Dying :
          /\ particles' = particles \o <<[pos |-> Agents[i].pos, life |-> 1 * Sec,
                                           n |-> 50]>>
             \/ particles' = particles \o <<[pos |-> Agents'[i].pos,
                                              life |-> 1 * Sec, n |-> 50]>>
          /\ Agents'[i].oid = Agents[i].oid
          /\ particles'[Len(particles')].pos = Agents'[i].pos
          /\ Values(Dropped(foods')) = Values(Dropped(foods)) \o DropOf(Agents'[i])

C23_DeathEffectsOnce == [][DeathEffectsStep]_vars

\* The collision pass has gone past the player, which died at the boundary
\* in its update with its head within hit distance of the newest path point
\* of a live bot: one burst lies there, and no more food than one drop gives
C23_NotKilledAgain ==
    /\ pc = "collide" /\ idx = 2
    /\ player[1].dead /\ MagGT(player[1].pos, mapSize)
    /\ ~bots[1].dead
    /\ PDistLT(player[1].pos, bots[1].path[1],
               Quot(35 * player[1].width, 100) + Quot(bots[1].width, 2))
    /\ ParticleCount(particles) = 50
    /\ Len(Dropped(foods)) <= Len(DropOf(player[1]))

\* ------------------------------------------------------------------------
\* C24: the collision pass misses no sampled overlap.  Whenever the pass
\* reaches a live agent A whose head is closer than
\* 0.35 * width(A) + width(B) / 2 to a point of the path of another live
\* agent B that the stride max(2, floor(width(B) / 5)) samples, A is
\* marked dead, wherever the head of B is.
\* ------------------------------------------------------------------------

\* The head of a is on a sampled point of the body of b
Overlaps(a, b) ==
    \E i \in Samples(b.path, Max(2, b.width \div (5 * Px))) :
        PDistLT(a.pos, b.path[i], Quot(35 * a.width, 100) + Quot(b.width, 2))

NoOverlapMissedStep ==
    pc = "collide" =>
        \A k \in 1..Len(Agents) :
            (/\ k # idx
             /\ ~Agents[idx].dead /\ ~Agents[k].dead
             /\ Overlaps(Agents[idx], Agents[k]))
            => Agents'[idx].dead

C24_NoOverlapMissed == [][NoOverlapMissedStep]_vars

\* ------------------------------------------------------------------------
\* C25: after a world reset and at the end of every tick, the head of every
\* live agent of the population, the player and the bots, those spawned
\* in that tick included, is within mapSize of the origin.
\* ------------------------------------------------------------------------
C25_LiveHeadsInside ==
    pc = "idle" =>
        \A i \in 1..Len(Agents) :
            ~Agents[i].dead => ~MagGT(Agents[i].pos, mapSize)

\* ------------------------------------------------------------------------
\* C26: the path of every agent holds at least one point at all times.  The
\* constructor's pre-fill leaves a non-empty path for every start score,
\* and the pop of the length management in Snake.update never takes the
\* last point, so path[0] and the tail point are always there to read.
\* ------------------------------------------------------------------------
PathNonEmpty == \A i \in 1..Len(Agents) : Agents[i].path # <<>>

\* An update that pops leaves at least one point behind
PopKeepsAPoint ==
    (UpdateRan /\ Len(Agent'.path) < Len(Agent.path)) => Len(Agent'.path) >= 1

C26_PathNeverEmpty == []PathNonEmpty /\ [][PopKeepsAPoint]_vars

\* Updates have popped the pre-filled path of an agent down to what its
\* target length allows, and the next update would pop no more
C26_PoppedToTarget ==
    /\ pc = "snake" /\ frameCount >= 1
    /\ Len(Agent.path) * getPathSpacing(Agent.width)
          <= calculateTargetLength(Agent.score)
    /\ (Len(Agent.path) + 1) * getPathSpacing(Agent.width)
          > calculateTargetLength(Agent.score)

\* ------------------------------------------------------------------------
\* C27: however start and restart commands, frame callbacks and the
\* player's death interleave, at most one gameLoop callback is pending at
\* any time, so that update and frameCount advance at most once per
\* animation frame; a start issued while a callback scheduled earlier is
\* still pending does not leave two loops running.
\* ------------------------------------------------------------------------
C27_OneLoopPending == pending <= 1

=============================================================================
